---- MODULE Spec2Model ----
(***************************************************************************)
(* Model of the real-time presence and room engine of loopp-backend       *)
(* (index.js), of the logout endpoint (auth.controller.js) and of the     *)
(* auth service (registration, refresh tokens).                           *)
(*                                                                         *)
(* Asynchronous code is modelled by its segments: a handler runs          *)
(* synchronously up to an await; the awaited store operation executes at  *)
(* some later point and the handler's continuation runs with it as one    *)
(* step (a store operation touches only the store, a continuation only    *)
(* the process memory, so the two commute with every other step between   *)
(* them).  An operation that is not awaited, or whose continuation is     *)
(* empty, stays in flight until the store applies or rejects it.          *)
(***************************************************************************)
EXTENDS Integers, Sequences, FiniteSets, TLC

\* ------------------------------------------------------------------ bounds
MaxConns == 2
MaxLogouts == 1
MaxFails == 1
MaxEvents == 2
MaxCalls == 2
MaxTokens == 3

\* ------------------------------------------------------------------ domain
NoUser == "none"
Users == {"u1", "u2", "u3"}
\* role of each stored user (models/User.js: roles)
Role == [u \in Users |-> CASE u = "u1" -> "Client" [] u = "u2" -> "PM" [] OTHER -> "Engineer"]
\* the room store holds r1; r0 is an id no room has
RoomIds == {"r1"}
RoomInputs == {"r1", "r0"}
Texts == {"hello"}
NoRole == "none"
RoleInputs == {NoRole, "PM"}
Conns == 1..MaxConns
Logouts == 1..MaxLogouts
HandshakeIds == Users \cup {NoUser}
\* lastActive: null (the schema default), new Date(0), or a new Date() of the run
Null == "null"
Epoch == "epoch"
Recent == "recent"

VARIABLES
  connLive,   \* c -> "unborn" | "live" | "closed": the transport of connection c
  connUid,    \* c -> the userId of the handshake, NoUser when it carries none
  connPc,     \* c -> "idle" | "lookup" | "done": the connect-time async block
  myUserDoc,  \* c -> the user document cached by the connect-time lookup, or NoUser
  subs,       \* c -> set of channels the socket is joined to
  presence,   \* the presence Map: userId -> socket count (a partial function)
  users,      \* identity store: u -> [online, lastActive, tokenVersion]
  writes,     \* presence writes (User.updateOne) in flight at the identity store
  logouts,    \* l -> [pc, id]: calls of the logout endpoint
  fails,      \* the number of store operations that have failed so far
  roomDocs,   \* room store: r -> [members, typing]
  prAssigned, \* r -> whether the room's ProjectRequest has pmAssigned
  messages,   \* message store: the sequence of stored messages
  pmAnnounced,        \* Set<roomId>
  engineerFirstJoin,  \* Set<roomId:userId>
  tasks,      \* the event handler invocations in progress
  nEvents,    \* the number of events received so far
  out,        \* the events emitted by the latest step, in order, with their recipients
  escaped,    \* the number of handler rejections that nothing has caught
  down,       \* whether an uncaught rejection has ended the process
  accounts,   \* the accounts of the identity store: [email, phone, role]
  refreshTokens,  \* refresh-token store: the sequence of stored records
  calls       \* the calls of the auth service, in progress and returned

vars == <<connLive, connUid, connPc, myUserDoc, subs, presence, users, writes,
          logouts, fails, roomDocs, prAssigned, messages, pmAnnounced,
          engineerFirstJoin, tasks, nEvents, out, escaped, down,
          accounts, refreshTokens, calls>>

\* what the connection lifecycle and the logout endpoint never touch
chatVars == <<roomDocs, prAssigned, messages, pmAnnounced, engineerFirstJoin,
              tasks, nEvents,
              escaped, down, accounts, refreshTokens, calls>>

UserCh(u) == <<"user", u>>
RoomCh(r) == <<"room", r>>

\* ---------------------------------------------------------- presence Map
PresenceGet(p, u) == IF u \in DOMAIN p THEN p[u] ELSE 0
PresenceSet(p, u, n) == [x \in DOMAIN p \cup {u} |-> IF x = u THEN n ELSE p[x]]
PresenceDelete(p, u) == [x \in DOMAIN p \ {u} |-> p[x]]

\* a handler invocation: its event payload, its position and its locals
NoTask == [id |-> 0, kind |-> "none", c |-> 0, room |-> "", uid |-> NoUser, text |-> "",
           role |-> NoRole, isTyping |-> FALSE, pc |-> "none", u |-> NoUser,
           ret |-> "", esiText |-> ""]

\* ------------------------------------------------------------------- Init
\* the process after start-up, and the stores but for the project requests
InitProcess ==
  /\ connLive = [c \in Conns |-> "unborn"]
  /\ connUid = [c \in Conns |-> NoUser]
  /\ connPc = [c \in Conns |-> "idle"]
  /\ myUserDoc = [c \in Conns |-> NoUser]
  /\ subs = [c \in Conns |-> {}]
  /\ presence = << >>
  /\ users = [u \in Users |-> [online |-> FALSE, lastActive |-> Null, tokenVersion |-> 0]]
  /\ writes = {}
  /\ logouts = [l \in Logouts |-> [pc |-> "idle", id |-> NoUser]]
  /\ fails = 0
  /\ roomDocs = [r \in RoomIds |-> [members |-> {"u1", "u2"}, typing |-> << >>]]
  /\ messages = << >>
  /\ pmAnnounced = {}
  /\ engineerFirstJoin = {}
  /\ tasks = {}
  /\ nEvents = 0
  /\ out = << >>
  /\ escaped = 0
  /\ down = FALSE
  /\ accounts = {}
  /\ refreshTokens = << >>
  /\ calls = {}

\* no project request has a manager assigned
Init == InitProcess /\ prAssigned = [r \in RoomIds |-> FALSE]

\* the request of a room has a manager assigned or it has none
InitAssigned == InitProcess /\ prAssigned \in [RoomIds -> BOOLEAN]

\* ------------------------------------------------------------- connection
\* The process memory a connection's lifecycle code reads and writes.
Mem == [connLive |-> connLive, subs |-> subs, presence |-> presence,
        writes |-> writes]

NewWrite(c, u, on) == [uid |-> u, online |-> on, at |-> Recent, c |-> c]

\* io.on("connection"): the handshake id is read and the async block starts;
\* with an id it suspends at User.findById.
Connect(c, u) ==
  /\ connLive[c] = "unborn"
  /\ \A d \in Conns : d < c => connLive[d] # "unborn"
  /\ connLive' = [connLive EXCEPT ![c] = "live"]
  /\ connUid' = [connUid EXCEPT ![c] = u]
  /\ connPc' = [connPc EXCEPT ![c] = IF u # NoUser THEN "lookup" ELSE "done"]
  /\ UNCHANGED <<myUserDoc, subs, presence, users, writes, logouts, fails, chatVars>>
  /\ out' = << >>

\* The presence Map after the connect-time increment.
IncrementCount(p, u) == PresenceSet(p, u, PresenceGet(p, u) + 1)

\* (variant) the write is issued only at the 0 -> 1 transition
IncrementWritesAtZero(w, p, c, u) ==
  IF PresenceGet(p, u) = 0 THEN w \cup {NewWrite(c, u, TRUE)} ELSE w

\* The identity-store writes in flight after the connect-time increment of u
\* by connection c, p being the presence Map before it.
IncrementWrites(w, p, c, u) == w \cup {NewWrite(c, u, TRUE)}

\* User.findById has answered (doc = NoUser: it threw, or found nothing) and the
\* rest of the async block runs: personal channel, increment, unawaited write.
ConnectResume(c, doc) ==
  /\ connPc[c] = "lookup"
  /\ doc \in {connUid[c], NoUser}
  /\ doc = NoUser => fails < MaxFails
  /\ connPc' = [connPc EXCEPT ![c] = "done"]
  /\ myUserDoc' = [myUserDoc EXCEPT ![c] = doc]
  /\ subs' = [subs EXCEPT ![c] = @ \cup {UserCh(connUid[c])}]
  /\ presence' = IncrementCount(presence, connUid[c])
  /\ writes' = IncrementWrites(writes, presence, c, connUid[c])
  /\ fails' = IF doc = NoUser THEN fails + 1 ELSE fails
  /\ UNCHANGED <<connLive, connUid, users, logouts, chatVars>>
  /\ out' = << >>

\* remaining = (presence.get(userId) || 1) - 1
Remaining(p, u) == (IF PresenceGet(p, u) # 0 THEN PresenceGet(p, u) ELSE 1) - 1

\* (variant) the count is stored even when it reaches 0
DecrementCountKeepZero(p, u) == PresenceSet(p, u, Remaining(p, u))

\* The presence Map after the disconnect handler of a connection of u.
DecrementCount(p, u) ==
  IF Remaining(p, u) <= 0 THEN PresenceDelete(p, u)
  ELSE PresenceSet(p, u, Remaining(p, u))

\* (variant) the handler lacks its if (userId) test
DisconnectEffectAnyone(m, c) ==
  LET u == connUid[c]
      closed == [m EXCEPT !.connLive[c] = "closed", !.subs[c] = {}]
  IN IF Remaining(m.presence, u) <= 0
     THEN [closed EXCEPT !.presence = DecrementCount(m.presence, u),
                         !.writes = @ \cup {NewWrite(c, u, FALSE)}]
     ELSE [closed EXCEPT !.presence = DecrementCount(m.presence, u)]

\* socket.on("disconnect") of connection c, on the memory m: the transport is
\* closed and its rooms are left, then the handler runs up to its await.
DisconnectEffect(m, c) ==
  LET u == connUid[c]
      closed == [m EXCEPT !.connLive[c] = "closed", !.subs[c] = {}]
  IN IF u = NoUser THEN closed
     ELSE IF Remaining(m.presence, u) <= 0
          THEN [closed EXCEPT !.presence = DecrementCount(m.presence, u),
                              !.writes = @ \cup {NewWrite(c, u, FALSE)}]
          ELSE [closed EXCEPT !.presence = DecrementCount(m.presence, u)]

SetMem(m) ==
  /\ connLive' = m.connLive
  /\ subs' = m.subs
  /\ presence' = m.presence
  /\ writes' = m.writes

\* The client closes the connection, or the network drops it.
Disconnect(c) ==
  /\ connLive[c] = "live"
  /\ SetMem(DisconnectEffect(Mem, c))
  /\ UNCHANGED <<connUid, connPc, myUserDoc, users, logouts, fails, chatVars>>
  /\ out' = << >>

\* --------------------------------------------------------- identity store
\* (variant) the update replaces the document instead of $set-ting two fields
PresenceReplace(d, w) == [online |-> w.online, lastActive |-> w.at, tokenVersion |-> 0]

\* { $set: { online, lastActive } } on the stored document d
PresenceUpdate(d, w) == [d EXCEPT !.online = w.online, !.lastActive = w.at]

\* The store applies a presence write in flight.
WriteApply(w) ==
  /\ w \in writes
  /\ writes' = writes \ {w}
  /\ users' = [users EXCEPT ![w.uid] = PresenceUpdate(@, w)]
  /\ UNCHANGED <<connLive, connUid, connPc, myUserDoc, subs, presence,
                 logouts, fails, chatVars>>
  /\ out' = << >>

\* The store rejects it: .catch(() => {}) swallows the error, nothing retries.
WriteFail(w) ==
  /\ w \in writes
  /\ fails < MaxFails
  /\ writes' = writes \ {w}
  /\ fails' = fails + 1
  /\ UNCHANGED <<connLive, connUid, connPc, myUserDoc, subs, presence, users,
                 logouts, chatVars>>
  /\ out' = << >>

\* ----------------------------------------------------------------- logout
\* logout: the id is resolved from the refresh token or req.user; doFinish
\* does nothing without one, and else suspends at User.updateOne.
LogoutStart(l, id) ==
  /\ logouts[l].pc = "idle"
  /\ \A k \in Logouts : k < l => logouts[k].pc # "idle"
  /\ logouts' = [logouts EXCEPT ![l] = [pc |-> IF id = NoUser THEN "done" ELSE "update",
                                        id |-> id]]
  /\ UNCHANGED <<connLive, connUid, connPc, myUserDoc, subs, presence, users,
                 writes, fails, chatVars>>
  /\ out' = << >>

\* { $set: { online: false, lastActive: new Date(0) }, $inc: { tokenVersion: 1 } }
LogoutUpdate(d) ==
  [d EXCEPT !.online = FALSE, !.lastActive = Epoch, !.tokenVersion = @ + 1]

\* for (const [, sock] of ns.sockets) if (sockUid === id) sock.disconnect(true)
RECURSIVE DisconnectAll(_, _)
DisconnectAll(m, cs) ==
  IF cs = {} THEN m
  ELSE LET c == CHOOSE x \in cs : \A y \in cs : x <= y
       IN DisconnectAll(DisconnectEffect(m, c), cs \ {c})

\* The store applies doFinish's update and doFinish goes on: every socket of
\* the namespace whose handshake id is the user's is force-disconnected.
LogoutFinish(l) ==
  /\ logouts[l].pc = "update"
  /\ users' = [users EXCEPT ![logouts[l].id] = LogoutUpdate(@)]
  /\ SetMem(DisconnectAll(Mem, {c \in Conns : connLive[c] = "live"
                                              /\ connUid[c] = logouts[l].id}))
  /\ logouts' = [logouts EXCEPT ![l].pc = "done"]
  /\ UNCHANGED <<connUid, connPc, myUserDoc, fails, chatVars>>
  /\ out' = << >>

\* The store rejects doFinish's update: the outer catch {} ends doFinish.
LogoutFail(l) ==
  /\ logouts[l].pc = "update"
  /\ fails < MaxFails
  /\ logouts' = [logouts EXCEPT ![l].pc = "failed"]
  /\ fails' = fails + 1
  /\ UNCHANGED <<connLive, connUid, connPc, myUserDoc, subs, presence, users,
                 writes, chatVars>>
  /\ out' = << >>

\* ------------------------------------------------------------------ chat
PM_ONLINE == "----- PM IS ACTIVELY ONLINE -----"
PM_ASSIGNED == "----- A PM HAS BEEN ASSIGNED -----"
ENGINEER_IN == "----- ENGINEER IS IN THE ROOM -----"
\* `Hi! I'm ${pmName}. I'll coordinate this project ...`
Greeting(u) == CASE u = "u1" -> "Hi! I'm u1" [] u = "u2" -> "Hi! I'm u2"
                 [] u = "u3" -> "Hi! I'm u3" [] OTHER -> "Hi! I'm PM"

\* (u?.role || "User") and the three role tests of the join handler
RoleOf(u) == IF u \in Users THEN Role[u] ELSE "User"
IsClientRole(r) == r = "Client"
IsPMRole(r) == r = "PM"
IsEngineerRole(r) == r = "Engineer"

\* what a handler reads and writes: process memory, stores, emitted events
Chat == [subs |-> subs, tasks |-> tasks, out |-> << >>, messages |-> messages,
         pmAnnounced |-> pmAnnounced, engineerFirstJoin |-> engineerFirstJoin,
         roomDocs |-> roomDocs, fails |-> fails, nEvents |-> nEvents]

SetChat(k) ==
  /\ subs' = k.subs
  /\ tasks' = k.tasks
  /\ out' = k.out
  /\ nEvents' = k.nEvents
  /\ messages' = k.messages
  /\ pmAnnounced' = k.pmAnnounced
  /\ engineerFirstJoin' = k.engineerFirstJoin
  /\ roomDocs' = k.roomDocs
  /\ fails' = k.fails
  /\ UNCHANGED <<connLive, connUid, connPc, myUserDoc, presence, users, writes,
                 logouts, prAssigned, escaped, down, accounts, refreshTokens, calls>>

\* an emitted event; rcpt is the set of sockets it is delivered to
\* (task, c, kind: the handler invocation that emits it, its socket, its event)
Event == [name |-> "", type |-> "", room |-> "", rcpt |-> {}, task |-> 0,
          c |-> 0, kind |-> "",
          mid |-> 0, senderType |-> "", sender |-> NoUser, doc |-> NoUser,
          text |-> "", uid |-> NoUser]

\* io.to(room): the connected sockets joined to the room
InRoom(k, r) == {c \in Conns : connLive[c] = "live" /\ RoomCh(r) \in k.subs[c]}
\* (variant) io.emit: every connected socket
ToAll(c) == {d \in Conns : connLive[d] = "live"}
\* socket.emit: the socket itself, while it is connected
ToSocket(c) == IF connLive[c] = "live" THEN {c} ELSE {}
\* (variant) the sending socket is not left out
InRoomAll(k, r, c) == InRoom(k, r)
\* socket.to(room): the room without the sending socket
InRoomExcept(k, r, c) == InRoom(k, r) \ {c}

\* the invocation with id t, and the invocations with that one replaced
Task(k, t) == CHOOSE j \in k.tasks : j.id = t
Put(k, j) == [k EXCEPT !.tasks = {i \in @ : i.id # j.id} \cup {j}]
Emit(k, e) ==
  [k EXCEPT !.out = Append(@, [e EXCEPT !.c = Task(k, e.task).c,
                                         !.kind = Task(k, e.task).kind])]
\* the handler returns
Finish(k, t) == [k EXCEPT !.tasks = {i \in @ : i.id # t}]
SetPc(k, t, pc) == Put(k, [Task(k, t) EXCEPT !.pc = pc])

\* socket.emit("error", text), to the socket of the handler
NOT_FOUND == "Room not found"
ErrorEvent(k, t, text) ==
  [Event EXCEPT !.name = "error", !.task = t, !.rcpt = ToSocket(Task(k, t).c),
                !.text = text]
\* return socket.emit("error", "Room not found")
EmitError(k, t) == Finish(Emit(k, ErrorEvent(k, t, NOT_FOUND)), t)
\* (variant) the handler's catch emits nothing
ThrowQuiet(k, t) == Finish([k EXCEPT !.fails = @ + 1], t)
\* a store call of task t throws: one more failure, then the handler's
\* catch (e) { socket.emit("error", e.message) }; e.message names the call
Throw(k, t) ==
  Finish(Emit([k EXCEPT !.fails = @ + 1], ErrorEvent(k, t, Task(k, t).pc)), t)
\* (variant) catch {} emits the error as catch (e) does
ThrowLoud(k, t) == Throw(k, t)
\* catch {} / catch (_) {}
ThrowSilent(k, t) == Finish([k EXCEPT !.fails = @ + 1], t)

\* Message.create: the stored message gets the next id
NewMessage(k, r, st, sender, text) ==
  [id |-> Len(k.messages) + 1, room |-> r, senderType |-> st, sender |-> sender,
   text |-> text]
\* (variant) a System message is stored only if the store has none with its
\* room and text
StoreOnce(k, msg) ==
  IF /\ msg.senderType = "System"
     /\ \E i \in 1..Len(k.messages) :
          /\ k.messages[i].room = msg.room /\ k.messages[i].text = msg.text
          /\ k.messages[i].senderType = "System"
  THEN k
  ELSE [k EXCEPT !.messages = Append(@, msg)]
\* (variant) the new message takes the place of the last one
StoreOver(k, msg) ==
  [k EXCEPT !.messages = IF @ = << >> THEN << msg >>
                         ELSE [@ EXCEPT ![Len(@)] = [msg EXCEPT !.id = Len(k.messages)]]]
Store(k, msg) == [k EXCEPT !.messages = Append(@, msg)]

\* (variant) socket.to(room) instead of io.to(room): the sender is left out
MessageEventToOthers(k, t, msg, doc) ==
  [Event EXCEPT !.name = "message", !.task = t, !.room = msg.room,
                !.rcpt = InRoomExcept(k, msg.room, Task(k, t).c), !.mid = msg.id,
                !.senderType = msg.senderType, !.sender = msg.sender,
                !.doc = doc, !.text = msg.text]

\* the "message" event that echoes a stored message to its room
MessageEvent(k, t, msg, doc) ==
  [Event EXCEPT !.name = "message", !.task = t, !.room = msg.room,
                !.rcpt = InRoom(k, msg.room), !.mid = msg.id,
                !.senderType = msg.senderType, !.sender = msg.sender,
                !.doc = doc, !.text = msg.text]

\* a new event of connection c arrives: its handler starts as the next task
CanArrive(c) == connLive[c] = "live" /\ nEvents < MaxEvents
NextTask == nEvents + 1
Place(k, task) == [k EXCEPT !.tasks = @ \cup {[task EXCEPT !.id = NextTask]},
                            !.nEvents = NextTask]
\* the userId field of a payload: the client's own id or another user's
PayloadIds(c) == {connUid[c], "u2"}

TaskIds == {j.id : j \in tasks}
At(t, kind, pc) == Task(Chat, t).kind = kind /\ Task(Chat, t).pc = pc
CanFail(ok) == ok \/ fails < MaxFails

\* ---- ensureSystemInline(roomId, text, true), called from the join handler
EsiCall(k, t, text, ret) ==
  Put(k, [Task(k, t) EXCEPT !.pc = "esiExists", !.esiText = text, !.ret = ret])

\* (variant) the banner is ensured on the first join of the engineer only
JoinEngineerFirstOnly(k, t) ==
  LET j == Task(k, t)
  IN IF IsEngineerRole(RoleOf(j.u)) /\ <<j.room, j.uid>> \notin k.engineerFirstJoin
     THEN EsiCall([k EXCEPT !.engineerFirstJoin = @ \cup {<<j.room, j.uid>>}],
                  t, ENGINEER_IN, "engineer")
     ELSE Finish(k, t)

\* if (/engineer/i.test(role)) { ... ensureSystemInline(ENGINEER_IN) }
JoinEngineer(k, t) ==
  LET j == Task(k, t)
  IN IF IsEngineerRole(RoleOf(j.u))
     THEN EsiCall([k EXCEPT !.engineerFirstJoin = @ \cup {<<j.room, j.uid>>}],
                  t, ENGINEER_IN, "engineer")
     ELSE Finish(k, t)

\* (variant) the greeting comes before the manager-assigned banner
JoinPMGuardGreetFirst(k, t) ==
  LET j == Task(k, t)
  IN IF j.room \notin k.pmAnnounced
     THEN SetPc(Put([k EXCEPT !.pmAnnounced = @ \cup {j.room}],
                    [j EXCEPT !.ret = "pmAssigned"]), t, "hasUserMsg")
     ELSE JoinEngineer(k, t)

\* (variant) the room is tested but not added to pmAnnounced
JoinPMGuardNoAdd(k, t) ==
  LET j == Task(k, t)
  IN IF j.room \notin k.pmAnnounced
     THEN EsiCall(k, t, PM_ASSIGNED, "pmAssigned")
     ELSE JoinEngineer(k, t)

\* (variant) the greeting is posted outside the pmAnnounced guard
JoinPMGuardGreets(k, t) ==
  LET j == Task(k, t)
  IN IF j.room \notin k.pmAnnounced
     THEN EsiCall([k EXCEPT !.pmAnnounced = @ \cup {j.room}], t, PM_ASSIGNED, "pmAssigned")
     ELSE SetPc(k, t, "greet")

\* if (!pmAnnounced.has(roomId)) { pmAnnounced.add(roomId); ensureSystemInline(PM_ASSIGNED) ...
JoinPMGuard(k, t) ==
  LET j == Task(k, t)
  IN IF j.room \notin k.pmAnnounced
     THEN EsiCall([k EXCEPT !.pmAnnounced = @ \cup {j.room}], t, PM_ASSIGNED, "pmAssigned")
     ELSE JoinEngineer(k, t)

\* (variant) the online banner is ensured only for a room not yet announced
JoinPMOnce(k, t) ==
  IF IsPMRole(RoleOf(Task(k, t).u)) /\ Task(k, t).room \notin k.pmAnnounced
  THEN EsiCall(k, t, PM_ONLINE, "pmOnline")
  ELSE JoinEngineer(k, t)

\* if (/pm|project\s*manager/i.test(role)) { ensureSystemInline(PM_ONLINE) ...
JoinPM(k, t) ==
  IF IsPMRole(RoleOf(Task(k, t).u)) THEN EsiCall(k, t, PM_ONLINE, "pmOnline")
  ELSE JoinEngineer(k, t)

\* the join handler goes on after a call of ensureSystemInline has returned
EsiReturn(k, t) ==
  LET ret == Task(k, t).ret
  IN CASE ret = "client" -> JoinPM(k, t)
       [] ret = "pmOnline" -> JoinPMGuard(k, t)
       [] ret = "pmAssigned" -> SetPc(k, t, "hasUserMsg")
       [] OTHER -> Finish(k, t)

\* (variant) the existence check leaves the text out
SystemExistsAnyText(msgs, r, text) ==
  \E i \in 1..Len(msgs) : msgs[i].room = r /\ msgs[i].senderType = "System"

\* Message.exists({room, senderType: "System", text})
SystemExists(msgs, r, text) ==
  \E i \in 1..Len(msgs) :
    msgs[i].room = r /\ msgs[i].senderType = "System" /\ msgs[i].text = text

\* Message.exists has answered: re-emit the inline notice, or go on to create
EsiExists(t, ok) ==
  /\ At(t, "join", "esiExists") /\ CanFail(ok)
  /\ LET j == Task(Chat, t)
     IN SetChat(
          IF ~ok THEN Throw(Chat, t)
          ELSE IF SystemExists(messages, j.room, j.esiText)
          THEN EsiReturn(Emit(Chat, [Event EXCEPT !.name = "system", !.type = "inline",
                                       !.task = t, !.room = j.room,
                                       !.rcpt = InRoom(Chat, j.room),
                                       !.text = j.esiText]), t)
          ELSE SetPc(Chat, t, "esiCreate"))

\* (variant) the event is emitted for a message that was never stored
EmitUnstored(k, t, msg, doc) == Emit(k, MessageEvent(k, t, msg, doc))

\* the message is stored by Message.create and then broadcast
StoreAndEmit(k, t, msg, doc) == Emit(Store(k, msg), MessageEvent(k, t, msg, doc))

EsiCreate(t, ok) ==
  /\ At(t, "join", "esiCreate") /\ CanFail(ok)
  /\ LET j == Task(Chat, t)
     IN SetChat(
          IF ~ok THEN Throw(Chat, t)
          ELSE EsiReturn(StoreAndEmit(Chat, t,
                 NewMessage(Chat, j.room, "System", NoUser, j.esiText), NoUser), t))

\* ---- socket.on("join")
JoinArrive(c, r, uid) ==
  /\ CanArrive(c)
  /\ SetChat(Place(Chat, [NoTask EXCEPT !.kind = "join", !.c = c, !.room = r,
                                        !.uid = uid, !.pc = "findRoom"]))

\* the sockets's channels after socket.join(roomId) and, with a payload userId,
\* socket.join(`user:${uid}`)
JoinChannels(chs, c, r, uid) ==
  chs \cup {RoomCh(r)} \cup (IF uid # NoUser THEN {UserCh(uid)} ELSE {})

\* (variant) the join notice goes out by socket.to: the joiner is left out
JoinAfterUserToOthers(k, t, u) ==
  LET j == Task(k, t)
      k1 == Emit(Put(k, [j EXCEPT !.u = u]),
                 [Event EXCEPT !.name = "system", !.type = "join", !.task = t,
                               !.room = j.room, !.rcpt = InRoomExcept(k, j.room, j.c),
                               !.uid = j.uid, !.doc = u])
  IN IF IsClientRole(RoleOf(u)) THEN SetPc(k1, t, "findPR") ELSE JoinPM(k1, t)

\* u is resolved: the join notice, then the role-based triggers
JoinAfterUser(k, t, u) ==
  LET j == Task(k, t)
      k1 == Emit(Put(k, [j EXCEPT !.u = u]),
                 [Event EXCEPT !.name = "system", !.type = "join", !.task = t,
                               !.room = j.room, !.rcpt = InRoom(k, j.room),
                               !.uid = j.uid, !.doc = u])
  IN IF IsClientRole(RoleOf(u)) THEN SetPc(k1, t, "findPR") ELSE JoinPM(k1, t)

\* (variant) the socket joins its channels before the room is checked
JoinFindRoomJoinFirst(t, ok) ==
  /\ At(t, "join", "findRoom") /\ CanFail(ok)
  /\ LET j == Task(Chat, t)
         in == [Chat EXCEPT !.subs[j.c] = JoinChannels(@, j.c, j.room, j.uid)]
         joined == Emit(in, [Event EXCEPT !.name = "joined", !.task = t,
                                          !.room = j.room, !.rcpt = ToSocket(j.c)])
     IN SetChat(
          IF ~ok THEN Throw(Chat, t)
          ELSE IF j.room \notin RoomIds THEN EmitError(in, t)
          ELSE IF myUserDoc[j.c] # NoUser THEN JoinAfterUser(joined, t, myUserDoc[j.c])
          ELSE SetPc(joined, t, "findUser"))

\* ChatRoom.findById has answered
JoinFindRoom(t, ok) ==
  /\ At(t, "join", "findRoom") /\ CanFail(ok)
  /\ LET j == Task(Chat, t)
         joined == Emit([Chat EXCEPT !.subs[j.c] = JoinChannels(@, j.c, j.room, j.uid)],
                        [Event EXCEPT !.name = "joined", !.task = t, !.room = j.room,
                                      !.rcpt = ToSocket(j.c)])
     IN SetChat(
          IF ~ok THEN Throw(Chat, t)
          ELSE IF j.room \notin RoomIds THEN EmitError(Chat, t)
          ELSE IF myUserDoc[j.c] # NoUser THEN JoinAfterUser(joined, t, myUserDoc[j.c])
          ELSE SetPc(joined, t, "findUser"))

\* User.findById(uid): the stored user, or null
FindUser(uid) == IF uid \in Users THEN uid ELSE NoUser

JoinFindUser(t, ok) ==
  /\ At(t, "join", "findUser") /\ CanFail(ok)
  /\ SetChat(IF ~ok THEN Throw(Chat, t)
             ELSE JoinAfterUser(Chat, t, FindUser(Task(Chat, t).uid)))

\* (variant) the banner is ensured whether a manager is assigned or not
JoinFindPRAnyway(t, ok) ==
  /\ At(t, "join", "findPR") /\ CanFail(ok)
  /\ SetChat(IF ~ok THEN Throw(Chat, t)
             ELSE EsiCall(Chat, t, PM_ASSIGNED, "client"))

\* ProjectRequest.findOne({ chatRoom: roomId }, "pmAssigned") has answered
JoinFindPR(t, ok) ==
  /\ At(t, "join", "findPR") /\ CanFail(ok)
  /\ SetChat(IF ~ok THEN Throw(Chat, t)
             ELSE IF prAssigned[Task(Chat, t).room]
             THEN EsiCall(Chat, t, PM_ASSIGNED, "client")
             ELSE JoinPM(Chat, t))

\* (variant) the check counts the banners too
AnyMessageExists(msgs, r) == \E i \in 1..Len(msgs) : msgs[i].room = r

\* Message.exists({ room, senderType: "User" })
UserMessageExists(msgs, r) ==
  \E i \in 1..Len(msgs) : msgs[i].room = r /\ msgs[i].senderType = "User"

\* (variant) the greeting is posted whether a User message exists or not
JoinHasUserMsgAnyway(t, ok) ==
  /\ At(t, "join", "hasUserMsg") /\ CanFail(ok)
  /\ SetChat(IF ~ok THEN Throw(Chat, t) ELSE SetPc(Chat, t, "greet"))

JoinHasUserMsg(t, ok) ==
  /\ At(t, "join", "hasUserMsg") /\ CanFail(ok)
  /\ SetChat(IF ~ok THEN Throw(Chat, t)
             ELSE IF UserMessageExists(messages, Task(Chat, t).room)
             THEN JoinEngineer(Chat, t)
             ELSE SetPc(Chat, t, "greet"))

\* createAndEmitMessage(roomId, u, text): the manager's greeting
JoinGreet(t, ok) ==
  /\ At(t, "join", "greet") /\ CanFail(ok)
  /\ LET j == Task(Chat, t)
     IN SetChat(
          IF ~ok THEN Throw(Chat, t)
          ELSE JoinEngineer(StoreAndEmit(Chat, t,
                 NewMessage(Chat, j.room, "User", j.u, Greeting(j.u)), j.u), t))

\* ---- socket.on("leave")
\* the "system" leave notice, sent to the room after the socket has left it
LeaveNotice(k, t, u) ==
  LET j == Task(k, t)
  IN Finish(Emit(k, [Event EXCEPT !.name = "system", !.type = "leave", !.task = t,
                                  !.room = j.room, !.rcpt = InRoom(k, j.room),
                                  !.uid = connUid[j.c], !.doc = u]), t)

\* (variant) leave also takes the socket's user out of the room's members
LeaveArriveMembers(c, r) ==
  /\ CanArrive(c)
  /\ LET t == NextTask
         left == [Place(Chat, [NoTask EXCEPT !.kind = "leave", !.c = c, !.room = r,
                                             !.pc = "findUser"])
                    EXCEPT !.subs[c] = @ \ {RoomCh(r)},
                           !.roomDocs[r].members = @ \ {connUid[c]}]
     IN SetChat(IF myUserDoc[c] # NoUser THEN LeaveNotice(left, t, myUserDoc[c])
                ELSE left)

\* socket.leave(roomId); with a cached user document the notice follows at once
LeaveArrive(c, r) ==
  /\ CanArrive(c)
  /\ LET t == NextTask
         left == [Place(Chat, [NoTask EXCEPT !.kind = "leave", !.c = c, !.room = r,
                                             !.pc = "findUser"])
                    EXCEPT !.subs[c] = @ \ {RoomCh(r)}]
     IN SetChat(IF myUserDoc[c] # NoUser THEN LeaveNotice(left, t, myUserDoc[c])
                ELSE left)

\* User.findById(userId) has answered; a failure is swallowed by catch {}
LeaveFindUser(t, ok) ==
  /\ At(t, "leave", "findUser") /\ CanFail(ok)
  /\ SetChat(IF ~ok THEN ThrowSilent(Chat, t)
             ELSE LeaveNotice(Chat, t, FindUser(connUid[Task(Chat, t).c])))

\* ---- socket.on("typing")
TypingArrive(c, r, uid, role, isTyping) ==
  /\ CanArrive(c)
  /\ SetChat(Place(Chat, [NoTask EXCEPT !.kind = "typing", !.c = c, !.room = r,
                                        !.uid = uid, !.role = role,
                                        !.isTyping = isTyping, !.pc = "findRoom"]))

\* ChatRoom.findById has answered: an absent room drops the event
TypingFindRoom(t, ok) ==
  /\ At(t, "typing", "findRoom") /\ CanFail(ok)
  /\ SetChat(IF ~ok THEN ThrowSilent(Chat, t)
             ELSE IF Task(Chat, t).room \notin RoomIds THEN Finish(Chat, t)
             ELSE SetPc(Chat, t, "save"))

\* (variant) a stop-typing update clears the whole map
SetTypingClear(typing, uid, role, isTyping) ==
  IF isTyping
  THEN [x \in DOMAIN typing \cup {uid} |->
          IF x = uid THEN (IF role = NoRole THEN "User" ELSE role) ELSE typing[x]]
  ELSE << >>

\* (variant) the map is replaced, not updated at one key
SetTypingOnly(typing, uid, role, isTyping) ==
  IF isTyping THEN [x \in {uid} |-> IF role = NoRole THEN "User" ELSE role]
  ELSE << >>

\* room.typing.set(String(uid), role || "User") / room.typing.delete(String(uid))
SetTyping(typing, uid, role, isTyping) ==
  IF isTyping
  THEN [x \in DOMAIN typing \cup {uid} |->
          IF x = uid THEN (IF role = NoRole THEN "User" ELSE role) ELSE typing[x]]
  ELSE [x \in DOMAIN typing \ {uid} |-> typing[x]]

\* room.save() has stored the changed key; the event goes to the other sockets
TypingSave(t, ok) ==
  /\ At(t, "typing", "save") /\ CanFail(ok)
  /\ LET j == Task(Chat, t)
     IN SetChat(
          IF ~ok THEN ThrowSilent(Chat, t)
          ELSE Finish(Emit([Chat EXCEPT !.roomDocs[j.room].typing =
                                          SetTyping(@, j.uid, j.role, j.isTyping)],
                           [Event EXCEPT !.name = "typing", !.task = t, !.room = j.room,
                                         !.rcpt = InRoomExcept(Chat, j.room, j.c),
                                         !.uid = j.uid]), t))

\* ---- socket.on("message")
MessageArrive(c, r, uid, text) ==
  /\ CanArrive(c)
  /\ SetChat(Place(Chat, [NoTask EXCEPT !.kind = "message", !.c = c, !.room = r,
                                        !.uid = uid, !.text = text, !.pc = "findRoom"]))

MessageFindRoom(t, ok) ==
  /\ At(t, "message", "findRoom") /\ CanFail(ok)
  /\ LET j == Task(Chat, t)
     IN SetChat(
          IF ~ok THEN Throw(Chat, t)
          ELSE IF j.room \notin RoomIds THEN EmitError(Chat, t)
          ELSE IF myUserDoc[j.c] # NoUser
          THEN Put(Chat, [j EXCEPT !.u = myUserDoc[j.c], !.pc = "create"])
          ELSE SetPc(Chat, t, "findUser"))

MessageFindUser(t, ok) ==
  /\ At(t, "message", "findUser") /\ CanFail(ok)
  /\ SetChat(IF ~ok THEN Throw(Chat, t)
             ELSE Put(Chat, [Task(Chat, t) EXCEPT !.u = FindUser(Task(Chat, t).uid),
                                                  !.pc = "create"]))

\* the message is stored by Message.create and then echoed to the room
PostMessage(k, t) ==
  LET j == Task(k, t)
  IN StoreAndEmit(k, t, NewMessage(k, j.room, "User", j.uid, j.text), j.u)

MessageCreate(t, ok) ==
  /\ At(t, "message", "create") /\ CanFail(ok)
  /\ SetChat(IF ~ok THEN Throw(Chat, t) ELSE Finish(PostMessage(Chat, t), t))

\* ---- an event without payload
\* the four events whose handlers destructure their first argument
EventNames == {"join", "leave", "typing", "message"}

\* An event of socket c arrives with no payload: binding the parameter
\* ({ roomId, ... }) of the async handler throws before its try block, so the
\* promise of the handler is rejected and nothing catches it. The runtime
\* either ends the process for it (dies), or reports it and goes on.
BadPayload(c, name, dies) ==
  /\ CanArrive(c) /\ name \in EventNames
  /\ nEvents' = NextTask
  /\ escaped' = escaped + 1
  /\ down' = dies
  /\ connLive' = IF dies THEN [d \in Conns |-> IF connLive[d] = "live" THEN "closed"
                                               ELSE connLive[d]]
                 ELSE connLive
  /\ subs' = IF dies THEN [d \in Conns |-> {}] ELSE subs
  /\ tasks' = IF dies THEN {} ELSE tasks
  /\ out' = << >>
  /\ UNCHANGED <<connUid, connPc, myUserDoc, presence, users, writes, logouts, fails,
                 roomDocs, prAssigned, messages, pmAnnounced, engineerFirstJoin,
                 accounts, refreshTokens, calls>>

\* ---- process restart
\* The process ends and starts again: its memory (presence Map, guard sets,
\* sockets, handlers and endpoint calls in progress) is lost, the stores and
\* the writes already sent to them are kept.
Restart ==
  /\ connLive' = [c \in Conns |-> IF connLive[c] = "live" THEN "closed" ELSE connLive[c]]
  /\ connPc' = [c \in Conns |-> IF connPc[c] = "lookup" THEN "done" ELSE connPc[c]]
  /\ myUserDoc' = [c \in Conns |-> NoUser]
  /\ subs' = [c \in Conns |-> {}]
  /\ presence' = << >>
  /\ pmAnnounced' = {}
  /\ engineerFirstJoin' = {}
  /\ tasks' = {}
  /\ logouts' = [l \in Logouts |-> IF logouts[l].pc = "update"
                                    THEN [logouts[l] EXCEPT !.pc = "failed"]
                                    ELSE logouts[l]]
  /\ out' = << >>
  /\ calls' = {k \in calls : k.pc = "done"}
  /\ UNCHANGED <<connUid, users, writes, fails, roomDocs, prAssigned, messages,
                 nEvents, escaped, down, accounts, refreshTokens>>

\* ----------------------------------------------------------- auth service
\* what the auth service never touches
authFrame == <<connLive, connUid, connPc, myUserDoc, subs, presence, writes, logouts,
               roomDocs, prAssigned, messages, pmAnnounced, engineerFirstJoin,
               tasks, nEvents, escaped, down>>

\* the emails and phones that callers pass, and what the helpers make of them
EmailInputs == {"a@x", " A@X ", "b@x"}
PhoneInputs == {"1", " 1 ", "2"}
\* String(email).trim().toLowerCase()
normalizeEmail(email) == IF email = " A@X " THEN "a@x" ELSE email
\* String(phone).trim()
normalizePhone(phone) == IF phone = " 1 " THEN "1" ELSE phone
\* the roles an administrator's request may name
StaffRoles == {"SuperAdmin", "PM"}

\* a call of the auth service: its arguments, its position, its locals and
\* what it returned or threw
NoCall == [id |-> 0, op |-> "", pc |-> "", email |-> "", phone |-> "", role |-> "",
           token |-> 0, uid |-> NoUser, stored |-> 0, issued |-> 0, result |-> ""]
CanCall == Cardinality(calls) < MaxCalls
NewCall(k) == calls \cup {[k EXCEPT !.id = Cardinality(calls) + 1]}
SetCall(k, new) == (calls \ {k}) \cup {new}
Return(k, res) == SetCall(k, [k EXCEPT !.pc = "done", !.result = res])
CallAt(k, op, pc) == k \in calls /\ k.op = op /\ k.pc = pc

OK == "ok"
SUPER_EXISTS == "SuperAdmin already exists"
EMAIL_PHONE_CLASH == "User with this email and phone already exists"
EMAIL_CLASH == "User with this email already exists"
PHONE_CLASH == "User with this phone already exists"
EMAIL_EXISTS == "Email already exists"
INVALID_TOKEN == "Invalid or expired refresh token"

\* registerSuperAdmin(email, password, phone, ...) is called
RegisterSuperAdminCall(email, phone) ==
  /\ CanCall
  /\ calls' = NewCall([NoCall EXCEPT !.op = "registerSuperAdmin", !.pc = "findSuper",
                                     !.email = normalizeEmail(email),
                                     !.phone = normalizePhone(phone),
                                     !.role = "SuperAdmin"])
  /\ UNCHANGED <<authFrame, users, fails, accounts, refreshTokens>>
  /\ out' = << >>

\* User.findOne({ role: "SuperAdmin" }) has answered
FindSuper(k) ==
  /\ CallAt(k, "registerSuperAdmin", "findSuper")
  /\ calls' = IF \E a \in accounts : a.role = "SuperAdmin"
              THEN Return(k, SUPER_EXISTS)
              ELSE SetCall(k, [k EXCEPT !.pc = "findClash"])
  /\ UNCHANGED <<authFrame, users, fails, accounts, refreshTokens>>
  /\ out' = << >>

\* addUserBySuperAdmin(email, role, phone, ...) is called, by the addUser
\* endpoint for a caller whose account has the role SuperAdmin
AddUserCall(email, role, phone) ==
  /\ CanCall
  /\ \E a \in accounts : a.role = "SuperAdmin"
  /\ calls' = NewCall([NoCall EXCEPT !.op = "addUserBySuperAdmin", !.pc = "findClash",
                                     !.email = normalizeEmail(email),
                                     !.phone = normalizePhone(phone), !.role = role])
  /\ UNCHANGED <<authFrame, users, fails, accounts, refreshTokens>>
  /\ out' = << >>

\* the error that the clash with the stored account a throws
ClashError(k, a) ==
  IF a.email = k.email /\ a.phone = k.phone THEN EMAIL_PHONE_CLASH
  ELSE IF a.email = k.email THEN EMAIL_CLASH
  ELSE PHONE_CLASH

\* User.findOne({ $or: [{ email }, { phone }] }) has answered, with one of the
\* accounts that match or with null
FindClash(k) ==
  /\ k \in calls /\ k.pc = "findClash"
  /\ LET clashes == {a \in accounts : a.email = k.email \/ a.phone = k.phone}
     IN IF clashes = {} THEN calls' = SetCall(k, [k EXCEPT !.pc = "register"])
        ELSE \E a \in clashes : calls' = Return(k, ClashError(k, a))
  /\ UNCHANGED <<authFrame, users, fails, accounts, refreshTokens>>
  /\ out' = << >>

\* User.register(user, password): the email is the username and has a unique
\* index; with the email taken it throws, and else the account is stored
Register(k) ==
  /\ k \in calls /\ k.pc = "register"
  /\ IF \E a \in accounts : a.email = k.email
     THEN calls' = Return(k, EMAIL_EXISTS) /\ accounts' = accounts
     ELSE /\ calls' = Return(k, OK)
          /\ accounts' = accounts \cup {[email |-> k.email, phone |-> k.phone, role |-> k.role]}
  /\ UNCHANGED <<authFrame, users, fails, refreshTokens>>
  /\ out' = << >>

\* ---- refresh tokens
\* the refresh tokens a caller may present: issued ones and ones never issued
TokenInputs == 1..MaxTokens
\* hashToken(token): a digest, equal for equal tokens only
hashToken(token) == <<"hash", token>>
\* generateRefreshToken(): a random token, one that was not issued before
generateRefreshToken == Len(refreshTokens) + 1
\* RefreshToken.create({ user, tokenHash, expiresAt })
NewRefreshToken(u) ==
  [user |-> u, tokenHash |-> hashToken(generateRefreshToken), revoked |-> FALSE,
   expired |-> FALSE]
\* RefreshToken.findOne({ tokenHash }): the place of the record, 0 for null
FindToken(hashed) ==
  IF \E n \in 1..Len(refreshTokens) : refreshTokens[n].tokenHash = hashed
  THEN CHOOSE n \in 1..Len(refreshTokens) : refreshTokens[n].tokenHash = hashed
  ELSE 0

\* createTokens(user), at sign-in: a refresh token is issued and its record stored
CreateTokens(u) ==
  /\ Len(refreshTokens) < MaxTokens
  /\ refreshTokens' = Append(refreshTokens, NewRefreshToken(u))
  /\ UNCHANGED <<authFrame, users, fails, accounts, calls>>
  /\ out' = << >>

\* fourteen days have passed since record n was stored: expiresAt < new Date()
Expire(n) ==
  /\ n \in 1..Len(refreshTokens) /\ ~refreshTokens[n].expired
  /\ refreshTokens' = [refreshTokens EXCEPT ![n].expired = TRUE]
  /\ UNCHANGED <<authFrame, users, fails, accounts, calls>>
  /\ out' = << >>

\* refreshAccessToken(token) is called
RefreshCall(token) ==
  /\ CanCall
  /\ calls' = NewCall([NoCall EXCEPT !.op = "refreshAccessToken", !.pc = "findOne",
                                     !.token = token])
  /\ UNCHANGED <<authFrame, users, fails, accounts, refreshTokens>>
  /\ out' = << >>

\* RefreshToken.findOne has answered: a missing, revoked or expired record throws
RefreshFindOne(k) ==
  /\ CallAt(k, "refreshAccessToken", "findOne")
  /\ LET n == FindToken(hashToken(k.token))
     IN calls' = IF n = 0 \/ refreshTokens[n].revoked \/ refreshTokens[n].expired
                 THEN Return(k, INVALID_TOKEN)
                 ELSE SetCall(k, [k EXCEPT !.pc = "findUser", !.stored = n])
  /\ UNCHANGED <<authFrame, users, fails, accounts, refreshTokens>>
  /\ out' = << >>

\* User.findById(stored.user) has answered; the new tokens are generated and
\* stored.revoked is set on the document in memory
RefreshFindUser(k) ==
  /\ CallAt(k, "refreshAccessToken", "findUser")
  /\ calls' = SetCall(k, [k EXCEPT !.pc = "save", !.uid = refreshTokens[k.stored].user])
  /\ UNCHANGED <<authFrame, users, fails, accounts, refreshTokens>>
  /\ out' = << >>

\* stored.save() has written revoked = true to the record
RefreshSave(k) ==
  /\ CallAt(k, "refreshAccessToken", "save")
  /\ refreshTokens' = [refreshTokens EXCEPT ![k.stored].revoked = TRUE]
  /\ calls' = SetCall(k, [k EXCEPT !.pc = "create"])
  /\ UNCHANGED <<authFrame, users, fails, accounts>>
  /\ out' = << >>

\* RefreshToken.create has stored the record of the new refresh token, and
\* the new pair is returned
RefreshCreate(k) ==
  /\ CallAt(k, "refreshAccessToken", "create")
  /\ Len(refreshTokens) < MaxTokens
  /\ refreshTokens' = Append(refreshTokens, NewRefreshToken(k.uid))
  /\ calls' = Return([k EXCEPT !.issued = generateRefreshToken], OK)
  /\ UNCHANGED <<authFrame, users, fails, accounts>>
  /\ out' = << >>

\* logoutUser(token, userId) is called
LogoutUserCall(token, uid) ==
  /\ CanCall
  /\ calls' = NewCall([NoCall EXCEPT !.op = "logoutUser", !.pc = "revoke",
                                     !.token = token, !.uid = uid])
  /\ UNCHANGED <<authFrame, users, fails, accounts, refreshTokens>>
  /\ out' = << >>

\* RefreshToken.updateOne({ tokenHash }, { revoked: true }) is applied, or it
\* is rejected and .catch(() => {}) swallows that; then if (userId) ...
LogoutUserRevoke(k, ok) ==
  /\ CallAt(k, "logoutUser", "revoke") /\ CanFail(ok)
  /\ LET n == FindToken(hashToken(k.token))
     IN refreshTokens' = IF ok /\ n # 0 THEN [refreshTokens EXCEPT ![n].revoked = TRUE]
                         ELSE refreshTokens
  /\ fails' = IF ok THEN fails ELSE fails + 1
  /\ calls' = IF k.uid = NoUser THEN Return(k, OK)
              ELSE SetCall(k, [k EXCEPT !.pc = "update"])
  /\ UNCHANGED <<authFrame, users, accounts>>
  /\ out' = << >>

\* User.updateOne({ _id: userId }, { $set: ..., $inc: { tokenVersion: 1 } })
\* is applied, or it is rejected and swallowed
LogoutUserUpdate(k, ok) ==
  /\ CallAt(k, "logoutUser", "update") /\ CanFail(ok)
  /\ users' = IF ok THEN [users EXCEPT ![k.uid] = LogoutUpdate(@)] ELSE users
  /\ fails' = IF ok THEN fails ELSE fails + 1
  /\ calls' = Return(k, OK)
  /\ UNCHANGED <<authFrame, accounts, refreshTokens>>
  /\ out' = << >>

\* ------------------------------------------------------------------- Spec
Next ==
  \/ \E c \in Conns, u \in HandshakeIds : Connect(c, u)
  \/ \E c \in Conns, doc \in HandshakeIds : ConnectResume(c, doc)
  \/ \E c \in Conns : Disconnect(c)
  \/ \E w \in writes : WriteApply(w)
  \/ \E w \in writes : WriteFail(w)
  \/ \E l \in Logouts, id \in HandshakeIds : LogoutStart(l, id)
  \/ \E l \in Logouts : LogoutFinish(l)
  \/ \E l \in Logouts : LogoutFail(l)

Spec == Init /\ [][Next]_vars

\* Chat scenario: anonymous, client and manager connections that stay
\* connected and join, post to and leave the room concurrently; the
\* connect-time lookup succeeds, any store call of a handler may fail.
ChatIds == {NoUser, "u1", "u2"}

NextChat ==
  \/ \E c \in Conns, u \in ChatIds : Connect(c, u)
  \/ \E c \in Conns : ConnectResume(c, connUid[c])
  \/ \E c \in Conns, r \in RoomInputs : \E uid \in PayloadIds(c) : JoinArrive(c, r, uid)
  \/ \E t \in TaskIds, ok \in BOOLEAN : JoinFindRoom(t, ok)
  \/ \E t \in TaskIds, ok \in BOOLEAN : JoinFindUser(t, ok)
  \/ \E t \in TaskIds, ok \in BOOLEAN : JoinFindPR(t, ok)
  \/ \E t \in TaskIds, ok \in BOOLEAN : EsiExists(t, ok)
  \/ \E t \in TaskIds, ok \in BOOLEAN : EsiCreate(t, ok)
  \/ \E t \in TaskIds, ok \in BOOLEAN : JoinHasUserMsg(t, ok)
  \/ \E t \in TaskIds, ok \in BOOLEAN : JoinGreet(t, ok)
  \/ \E c \in Conns, r \in RoomIds : LeaveArrive(c, r)
  \/ \E t \in TaskIds, ok \in BOOLEAN : LeaveFindUser(t, ok)
  \/ \E c \in Conns, r \in RoomInputs, text \in Texts :
       \E uid \in PayloadIds(c) : MessageArrive(c, r, uid, text)
  \/ \E t \in TaskIds, ok \in BOOLEAN : MessageFindRoom(t, ok)
  \/ \E t \in TaskIds, ok \in BOOLEAN : MessageFindUser(t, ok)
  \/ \E t \in TaskIds, ok \in BOOLEAN : MessageCreate(t, ok)

SpecChat == Init /\ [][NextChat]_vars

\* Anonymous scenario: a client connects and disconnects while connections
\* without a handshake id connect, send any events and disconnect; presence
\* writes are applied by the store, handler store calls succeed.
IsAnon(c) == connLive[c] # "unborn" /\ connUid[c] = NoUser
AnonTask(t) == IsAnon(Task(Chat, t).c)

NextAnon ==
  \/ \E c \in Conns, u \in {NoUser, "u1"} : Connect(c, u)
  \/ \E c \in Conns : ConnectResume(c, connUid[c])
  \/ \E c \in Conns : Disconnect(c)
  \/ \E w \in writes : WriteApply(w)
  \/ \E c \in Conns, r \in RoomIds :
       \E uid \in PayloadIds(c) : IsAnon(c) /\ JoinArrive(c, r, uid)
  \/ \E t \in TaskIds : JoinFindRoom(t, TRUE)
  \/ \E t \in TaskIds : JoinFindUser(t, TRUE)
  \/ \E t \in TaskIds : EsiExists(t, TRUE)
  \/ \E t \in TaskIds : EsiCreate(t, TRUE)
  \/ \E t \in TaskIds : JoinHasUserMsg(t, TRUE)
  \/ \E t \in TaskIds : JoinGreet(t, TRUE)
  \/ \E c \in Conns, r \in RoomIds : IsAnon(c) /\ LeaveArrive(c, r)
  \/ \E t \in TaskIds : LeaveFindUser(t, TRUE)
  \/ \E c \in Conns, r \in RoomIds, role \in {NoRole}, isTyping \in BOOLEAN :
       \E uid \in PayloadIds(c) : IsAnon(c) /\ TypingArrive(c, r, uid, role, isTyping)
  \/ \E t \in TaskIds : TypingFindRoom(t, TRUE)
  \/ \E t \in TaskIds : TypingSave(t, TRUE)
  \/ \E c \in Conns, r \in RoomIds, text \in Texts :
       \E uid \in PayloadIds(c) : IsAnon(c) /\ MessageArrive(c, r, uid, text)
  \/ \E t \in TaskIds : MessageFindRoom(t, TRUE)
  \/ \E t \in TaskIds : MessageFindUser(t, TRUE)
  \/ \E t \in TaskIds : MessageCreate(t, TRUE)

SpecAnon == Init /\ [][NextAnon]_vars

\* Room scenario: a client and connections without handshake id stay
\* connected and send join, typing and message events for the room and for a
\* room id that the room store does not hold; every store call succeeds.
NextRoom ==
  \/ \E c \in Conns, u \in {NoUser, "u1"} : Connect(c, u)
  \/ \E c \in Conns : ConnectResume(c, connUid[c])
  \/ \E c \in Conns, r \in RoomInputs : JoinArrive(c, r, connUid[c])
  \/ \E t \in TaskIds : JoinFindRoom(t, TRUE)
  \/ \E t \in TaskIds : JoinFindUser(t, TRUE)
  \/ \E t \in TaskIds : JoinFindPR(t, TRUE)
  \/ \E c \in Conns, r \in RoomInputs, role \in RoleInputs, isTyping \in BOOLEAN :
       \E uid \in PayloadIds(c) : TypingArrive(c, r, uid, role, isTyping)
  \/ \E t \in TaskIds : TypingFindRoom(t, TRUE)
  \/ \E t \in TaskIds : TypingSave(t, TRUE)
  \/ \E c \in Conns, r \in RoomInputs, text \in Texts :
       MessageArrive(c, r, connUid[c], text)
  \/ \E t \in TaskIds : MessageFindRoom(t, TRUE)
  \/ \E t \in TaskIds : MessageFindUser(t, TRUE)
  \/ \E t \in TaskIds : MessageCreate(t, TRUE)

SpecRoom == Init /\ [][NextRoom]_vars

\* Banner scenario: a client and a manager join the room, each on any number
\* of connections, concurrently or one after the other; the room's request
\* has a manager assigned or not; every store call succeeds.
NextBanner ==
  \/ \E c \in Conns, u \in {"u1", "u2"} : Connect(c, u)
  \/ \E c \in Conns : ConnectResume(c, connUid[c])
  \/ \E c \in Conns, r \in RoomIds : JoinArrive(c, r, connUid[c])
  \/ \E t \in TaskIds : JoinFindRoom(t, TRUE)
  \/ \E t \in TaskIds : JoinFindUser(t, TRUE)
  \/ \E t \in TaskIds : JoinFindPR(t, TRUE)
  \/ \E t \in TaskIds : EsiExists(t, TRUE)
  \/ \E t \in TaskIds : EsiCreate(t, TRUE)
  \/ \E t \in TaskIds : JoinHasUserMsg(t, TRUE)
  \/ \E t \in TaskIds : JoinGreet(t, TRUE)

SpecBanner == InitAssigned /\ [][NextBanner]_vars

\* Best-effort scenario: a client and a socket without handshake id connect,
\* send typing events and disconnect; one store call may fail: a presence
\* write, the room lookup or the room save.
NextBestEffort ==
  \/ \E c \in Conns, u \in {NoUser, "u1"} : Connect(c, u)
  \/ \E c \in Conns : ConnectResume(c, connUid[c])
  \/ \E c \in Conns : Disconnect(c)
  \/ \E w \in writes : WriteApply(w)
  \/ \E w \in writes : WriteFail(w)
  \/ \E c \in Conns, r \in RoomIds, isTyping \in BOOLEAN :
       TypingArrive(c, r, connUid[c], NoRole, isTyping)
  \/ \E t \in TaskIds, ok \in BOOLEAN : TypingFindRoom(t, ok)
  \/ \E t \in TaskIds, ok \in BOOLEAN : TypingSave(t, ok)

SpecBestEffort == Init /\ [][NextBestEffort]_vars

\* Payload scenario: a client and a socket without handshake id join the
\* room, with store calls that may fail, and send events without payload,
\* until the process ends.
NextPayload ==
  /\ ~down
  /\ \/ \E c \in Conns, u \in {NoUser, "u1"} : Connect(c, u)
     \/ \E c \in Conns : ConnectResume(c, connUid[c])
     \/ \E c \in Conns, r \in RoomIds : JoinArrive(c, r, connUid[c])
     \/ \E t \in TaskIds, ok \in BOOLEAN : JoinFindRoom(t, ok)
     \/ \E t \in TaskIds, ok \in BOOLEAN : JoinFindUser(t, ok)
     \/ \E t \in TaskIds, ok \in BOOLEAN : JoinFindPR(t, ok)
     \/ \E c \in Conns, name \in EventNames, dies \in BOOLEAN : BadPayload(c, name, dies)

SpecPayload == Init /\ [][NextPayload]_vars

\* Leave scenario: the sockets of a client connect, join the room, send
\* typing and message events, leave and disconnect; every store call
\* of a handler succeeds, the presence writes stay in flight.
NextLeave ==
  \/ \E c \in Conns : Connect(c, "u1")
  \/ \E c \in Conns : ConnectResume(c, connUid[c])
  \/ \E c \in Conns : Disconnect(c)
  \/ \E c \in Conns, r \in RoomIds : JoinArrive(c, r, connUid[c])
  \/ \E t \in TaskIds : JoinFindRoom(t, TRUE)
  \/ \E t \in TaskIds : JoinFindUser(t, TRUE)
  \/ \E t \in TaskIds : JoinFindPR(t, TRUE)
  \/ \E c \in Conns, r \in RoomIds : LeaveArrive(c, r)
  \/ \E t \in TaskIds : LeaveFindUser(t, TRUE)
  \/ \E c \in Conns, r \in RoomIds : TypingArrive(c, r, connUid[c], NoRole, TRUE)
  \/ \E t \in TaskIds : TypingFindRoom(t, TRUE)
  \/ \E t \in TaskIds : TypingSave(t, TRUE)
  \/ \E c \in Conns, r \in RoomIds, text \in Texts : MessageArrive(c, r, connUid[c], text)
  \/ \E t \in TaskIds : MessageFindRoom(t, TRUE)
  \/ \E t \in TaskIds : MessageFindUser(t, TRUE)
  \/ \E t \in TaskIds : MessageCreate(t, TRUE)

SpecLeave == Init /\ [][NextLeave]_vars

\* Restart scenario: the sockets of a manager connect and join the room; the
\* process may restart at any moment; every store call succeeds.
NextRestart ==
  \/ \E c \in Conns : Connect(c, "u2")
  \/ \E c \in Conns : ConnectResume(c, connUid[c])
  \/ \E c \in Conns, r \in RoomIds : JoinArrive(c, r, connUid[c])
  \/ \E t \in TaskIds : JoinFindRoom(t, TRUE)
  \/ \E t \in TaskIds : JoinFindUser(t, TRUE)
  \/ \E t \in TaskIds : EsiExists(t, TRUE)
  \/ \E t \in TaskIds : EsiCreate(t, TRUE)
  \/ \E t \in TaskIds : JoinHasUserMsg(t, TRUE)
  \/ \E t \in TaskIds : JoinGreet(t, TRUE)
  \/ Restart

SpecRestart == Init /\ [][NextRestart]_vars

\* Engineer scenario: the sockets of an engineer connect and join the room,
\* concurrently or one after the other; every store call succeeds.
NextEngineer ==
  \/ \E c \in Conns : Connect(c, "u3")
  \/ \E c \in Conns : ConnectResume(c, connUid[c])
  \/ \E c \in Conns, r \in RoomIds : JoinArrive(c, r, connUid[c])
  \/ \E t \in TaskIds : JoinFindRoom(t, TRUE)
  \/ \E t \in TaskIds : JoinFindUser(t, TRUE)
  \/ \E t \in TaskIds : EsiExists(t, TRUE)
  \/ \E t \in TaskIds : EsiCreate(t, TRUE)

SpecEngineer == Init /\ [][NextEngineer]_vars

\* Join scenario: a client, a manager and sockets without handshake id stay
\* connected and join the room, with their own id or the manager's in the
\* payload, concurrently or one after the other; every store call succeeds.
NextJoin ==
  \/ \E c \in Conns, u \in ChatIds : Connect(c, u)
  \/ \E c \in Conns : ConnectResume(c, connUid[c])
  \/ \E c \in Conns, r \in RoomIds : \E uid \in PayloadIds(c) : JoinArrive(c, r, uid)
  \/ \E t \in TaskIds : JoinFindRoom(t, TRUE)
  \/ \E t \in TaskIds : JoinFindUser(t, TRUE)
  \/ \E t \in TaskIds : JoinFindPR(t, TRUE)
  \/ \E t \in TaskIds : EsiExists(t, TRUE)
  \/ \E t \in TaskIds : EsiCreate(t, TRUE)
  \/ \E t \in TaskIds : JoinHasUserMsg(t, TRUE)
  \/ \E t \in TaskIds : JoinGreet(t, TRUE)

SpecJoin == Init /\ [][NextJoin]_vars

\* Administration scenario: registerSuperAdmin and addUserBySuperAdmin are
\* called, concurrently or one after the other, with emails and phones that
\* differ or clash.
NextAdmin ==
  \/ \E email \in EmailInputs, phone \in PhoneInputs : RegisterSuperAdminCall(email, phone)
  \/ \E k \in calls : FindSuper(k)
  \/ \E email \in EmailInputs, role \in StaffRoles, phone \in PhoneInputs :
       AddUserCall(email, role, phone)
  \/ \E k \in calls : FindClash(k)
  \/ \E k \in calls : Register(k)

SpecAdmin == Init /\ [][NextAdmin]_vars

\* Token scenario: a user signs in, refresh tokens are presented to
\* refreshAccessToken and logoutUser, concurrently or one after the other,
\* and expire; a store call of logoutUser may fail.
NextTokens ==
  \/ CreateTokens("u1")
  \/ \E n \in 1..Len(refreshTokens) : Expire(n)
  \/ \E token \in TokenInputs : RefreshCall(token)
  \/ \E k \in calls : RefreshFindOne(k)
  \/ \E k \in calls : RefreshFindUser(k)
  \/ \E k \in calls : RefreshSave(k)
  \/ \E k \in calls : RefreshCreate(k)
  \/ \E token \in TokenInputs, uid \in {NoUser, "u1"} : LogoutUserCall(token, uid)
  \/ \E k \in calls, ok \in BOOLEAN : LogoutUserRevoke(k, ok)
  \/ \E k \in calls, ok \in BOOLEAN : LogoutUserUpdate(k, ok)

SpecTokens == Init /\ [][NextTokens]_vars

\* ================================================================ claims
Max(a, b) == IF a >= b THEN a ELSE b

\* no connect-time block is suspended, no presence write and no logout update
\* is in flight
Settled ==
  /\ \A c \in Conns : connPc[c] # "lookup"
  /\ writes = {}
  /\ \A l \in Logouts : logouts[l].pc # "update"

LiveOf(u) == {c \in Conns : connLive[c] = "live" /\ connUid[c] = u}
ClosedOf(u) == {c \in Conns : connLive[c] = "closed" /\ connUid[c] = u}

\* C1: whenever nothing is in flight, each user's stored online flag is true
\* exactly when the user's presence refcount is above 0.
C1_PresenceInvariant ==
  Settled => \A u \in Users : users[u].online <=> PresenceGet(presence, u) > 0

\* C2: whenever nothing is in flight, each user's refcount is the number of
\* live connections whose handshake carried the user's id.
C2_RefcountAccuracy ==
  Settled => \A u \in Users : PresenceGet(presence, u) = Cardinality(LiveOf(u))

\* C3: once all connections of a user have disconnected and everything has
\* settled with no store failure, the refcount is 0 and the user is offline.
C3_EventuallyOffline ==
  (Settled /\ fails = 0) =>
    \A u \in Users : (ClosedOf(u) # {} /\ LiveOf(u) = {}) =>
      PresenceGet(presence, u) = 0 /\ ~users[u].online

\* the step in which connection c's connect-time block resumes and increments
IsIncrement(c) == connPc[c] = "lookup" /\ connPc'[c] = "done"

\* C4 (as claimed): an increment of a refcount that is already >= 1 issues no
\* identity-store write.
C4_WriteOnlyAtZero ==
  [][\A c \in Conns :
       (IsIncrement(c) /\ PresenceGet(presence, connUid[c]) >= 1) => writes' = writes]_vars

\* C4 (amended): every increment raises the user's refcount by exactly one,
\* leaves the other counts alone and issues one write online=true,
\* lastActive=now, whatever the refcount was before.
C4_IncrementAlwaysWrites ==
  [][\A c \in Conns : IsIncrement(c) =>
       /\ PresenceGet(presence', connUid[c]) = PresenceGet(presence, connUid[c]) + 1
       /\ \A u \in Users \ {connUid[c]} : PresenceGet(presence', u) = PresenceGet(presence, u)
       /\ \E w \in writes' \ writes :
            /\ writes' = writes \cup {w}
            /\ w.uid = connUid[c] /\ w.online /\ w.at = Recent]_vars

\* an increment from 1 to 2 has happened and both connect-time writes are in flight
C4_Witness ==
  \E u \in Users :
    /\ PresenceGet(presence, u) = 2
    /\ Cardinality({w \in writes : w.uid = u /\ w.online}) = 2

\* the connections of u whose transport closes in this step
Closing(u) == {c \in Conns : connUid[c] = u /\ connLive[c] = "live" /\ connLive'[c] = "closed"}

\* C5: the disconnects of k connections of a user lower the refcount by k with
\* a floor at 0, the Map never holds a value below 1, and a write online=false,
\* lastActive=now is issued by exactly the disconnects that leave the count at 0
\* (for one disconnect: one write if the count is 0 afterwards, none otherwise).
C5_Decrement ==
  [][/\ \A u \in DOMAIN presence' : presence'[u] >= 1
     /\ \A u \in Users : Closing(u) # {} =>
          LET k == Cardinality(Closing(u))
              p == PresenceGet(presence, u)
              new == {w \in writes' \ writes : w.uid = u}
          IN /\ PresenceGet(presence', u) = Max(p - k, 0)
             /\ \A w \in new : ~w.online /\ w.at = Recent /\ w.c \in Closing(u)
             /\ Cardinality(new) = Max(0, k - Max(p, 1) + 1)
             /\ (k = 1 => (new # {} <=> PresenceGet(presence', u) = 0))]_vars

\* one of two connections of a user has disconnected: the count is 1 and no
\* offline write was issued
C5_Witness ==
  \E c, d \in Conns :
    /\ connUid[c] # NoUser /\ connUid[c] = connUid[d]
    /\ connLive[c] = "closed" /\ connLive[d] = "live"
    /\ connPc[c] = "done" /\ connPc[d] = "done"
    /\ PresenceGet(presence, connUid[c]) = 1
    /\ \A w \in writes : w.online
    /\ users[connUid[c]].online

\* the step in which logout l's identity-store update is applied / rejected
LogoutApplied(l) == logouts[l].pc = "update" /\ logouts'[l].pc = "done"
LogoutRejected(l) == logouts[l].pc = "update" /\ logouts'[l].pc = "failed"

InRoomNow(r) == {c \in Conns : connLive[c] = "live" /\ RoomCh(r) \in subs[c]}

\* a step of a connection without handshake id: its connect, its disconnect,
\* the arrival of one of its events or a step of one of its handlers
AnonStep ==
  \/ \E c \in Conns : connLive[c] = "unborn" /\ connLive'[c] = "live" /\ connUid'[c] = NoUser
  \/ \E c \in Conns : connUid[c] = NoUser /\ connLive[c] = "live" /\ connLive'[c] = "closed"
  \/ \E j \in (tasks \ tasks') \cup (tasks' \ tasks) : connUid[j.c] = NoUser

\* C6: no step of an anonymous connection changes the presence Map or any
\* stored user, or issues an identity-store write.
C6_AnonNoPresence ==
  [][AnonStep => UNCHANGED <<presence, users, writes>>]_vars

\* an anonymous connection has sent an event and disconnected while a user
\* is counted and stored as online
C6_Witness ==
  /\ \E c \in Conns : connUid[c] = NoUser /\ connLive[c] = "closed"
  /\ nEvents >= 1
  /\ \E u \in Users : PresenceGet(presence, u) = 1 /\ users[u].online

\* C7: a connected socket without handshake id is joined to no personal
\* channel, whatever events it has sent.
C7_AnonNoPersonalChannel ==
  \A c \in Conns : (connUid[c] = NoUser /\ connLive[c] = "live") =>
                     \A u \in Users : UserCh(u) \notin subs[c]

\* the "message" events of the latest step that echo a posted message
Echoes == {i \in 1..Len(out) : out[i].name = "message" /\ out[i].kind = "message"}

\* C9 (as claimed): the echo of a posted message reaches every socket joined
\* to the room and the posting socket.
C9_EchoReachesSender ==
  \A i \in Echoes : (InRoomNow(out[i].room) \cup {out[i].c}) \subseteq out[i].rcpt

\* the step in which Message.create of the message handler j succeeds
Persisted(j) ==
  /\ j.kind = "message" /\ j.pc = "create" /\ j \notin tasks'
  /\ Len(messages') = Len(messages) + 1

\* C9 (amended): when the message of a message event is persisted, one
\* "message" event is emitted, and it reaches exactly the connected sockets
\* joined to the room at that moment: the poster too if it is joined, and not
\* if it is not.
C9_EchoReachesRoom ==
  [][\A j \in tasks : Persisted(j) =>
       /\ Len(out') = 1 /\ out'[1].name = "message" /\ out'[1].task = j.id
       /\ out'[1].room = j.room
       /\ out'[1].rcpt = {c \in Conns : connLive'[c] = "live"
                                        /\ RoomCh(j.room) \in subs'[c]}
       /\ (j.c \in out'[1].rcpt <=> RoomCh(j.room) \in subs'[j.c])]_vars

\* a posted message is echoed to its poster, which is joined to the room
C9_Witness ==
  \E i \in Echoes : out[i].c \in out[i].rcpt

\* C10: every "message" event of a step carries the id, room, text and
\* senderType of a message that is in the store in that step's result; the
\* echo of a posted message has senderType User and the text of its payload.
C10_PersistBeforeEcho ==
  [][\A i \in 1..Len(out') : out'[i].name = "message" =>
       /\ out'[i].mid \in 1..Len(messages')
       /\ messages'[out'[i].mid].id = out'[i].mid
       /\ messages'[out'[i].mid].room = out'[i].room
       /\ messages'[out'[i].mid].text = out'[i].text
       /\ messages'[out'[i].mid].senderType = out'[i].senderType
       /\ out'[i].kind = "message" =>
            /\ out'[i].senderType = "User"
            /\ \E j \in tasks : j.id = out'[i].task /\ j.text = out'[i].text
                                /\ j.room = out'[i].room]_vars

\* a posted message is echoed in a room that holds a banner and a greeting
C10_Witness ==
  /\ \E i \in Echoes : out[i].rcpt # {} /\ out[i].mid = Len(messages)
  /\ \E i \in 1..Len(messages) : messages[i].senderType = "System"
  /\ \E i \in 1..Len(messages) : messages[i].text = Greeting("u2")

\* C11: the events of one connection are handled in the order received: no
\* message is echoed while an earlier message of the same connection to the
\* same room is still being handled (and so is not yet stored or echoed).
C11_InOrder ==
  \A i \in Echoes :
    ~\E j \in tasks : /\ j.kind = "message" /\ j.c = out[i].c
                      /\ j.room = out[i].room /\ j.id < out[i].task

\* the step in which room.save() of the typing handler j succeeds
TypingSaved(j) ==
  j.kind = "typing" /\ j.pc = "save" /\ j \notin tasks' /\ fails' = fails

\* C12: when the typing handler of socket A has saved the room, one typing
\* event is emitted; it reaches every connected socket joined to the room but
\* A, and never A.
C12_TypingToOthers ==
  [][\A j \in tasks : TypingSaved(j) =>
       /\ Len(out') = 1 /\ out'[1].name = "typing"
       /\ out'[1].room = j.room /\ out'[1].uid = j.uid
       /\ out'[1].rcpt = {c \in Conns : connLive'[c] = "live"
                                        /\ RoomCh(j.room) \in subs'[c]} \ {j.c}
       /\ j.c \notin out'[1].rcpt]_vars

\* a typing event reaches another socket that has joined the room
C12_Witness ==
  \E i \in 1..Len(out) : out[i].name = "typing" /\ out[i].rcpt # {}
                         /\ out[i].c \notin out[i].rcpt

\* C13: the save of a typing event (roomId, userId, role, isTyping) leaves the
\* room's typing map with userId -> role ("User" without a role) if isTyping,
\* without the key userId if not; its other keys and the members are unchanged.
C13_SetTypingResult ==
  [][\A j \in tasks : TypingSaved(j) =>
       LET old == roomDocs[j.room].typing
           new == roomDocs'[j.room].typing
       IN /\ roomDocs'[j.room].members = roomDocs[j.room].members
          /\ j.isTyping => /\ DOMAIN new = DOMAIN old \cup {j.uid}
                           /\ new[j.uid] = (IF j.role = NoRole THEN "User" ELSE j.role)
          /\ ~j.isTyping => DOMAIN new = DOMAIN old \ {j.uid}
          /\ \A x \in DOMAIN old \ {j.uid} : x \in DOMAIN new /\ new[x] = old[x]
          /\ \A r \in RoomIds \ {j.room} : roomDocs'[r] = roomDocs[r]]_vars

\* two typing events have settled: one key with the default role, one with a
\* given role
C13_Witness ==
  /\ tasks = {} /\ nEvents = 2
  /\ \E x, y \in DOMAIN roomDocs["r1"].typing :
       roomDocs["r1"].typing[x] = "User" /\ roomDocs["r1"].typing[y] = "PM"

\* the store holds a System message of room r with exactly this text
HasBanner(msgs, r, text) ==
  \E i \in 1..Len(msgs) :
    msgs[i].room = r /\ msgs[i].senderType = "System" /\ msgs[i].text = text

\* a step of the handler j that no store call of it fails in
Stepped(j) == j \notin tasks' /\ fails' = fails

\* C14: ensureSystemInline(roomId, text) creates a message exactly when its
\* existence check finds no System message of that room and text. When one
\* exists the check's step stores nothing and emits one system event of type
\* inline and no message event; when none exists the check's step stores and
\* emits nothing and the create follows, which appends one message (System,
\* sender null, that text) and emits it to the room as a message event.
C14_EnsureSystemInline ==
  [][\A j \in tasks : (j.kind = "join" /\ Stepped(j)) =>
       /\ (j.pc = "esiExists" /\ HasBanner(messages, j.room, j.esiText)) =>
            /\ messages' = messages
            /\ Len(out') = 1 /\ out'[1].name = "system" /\ out'[1].type = "inline"
            /\ out'[1].text = j.esiText /\ out'[1].room = j.room
            /\ ~\E i \in tasks' : i.id = j.id /\ i.pc = "esiCreate"
       /\ (j.pc = "esiExists" /\ ~HasBanner(messages, j.room, j.esiText)) =>
            /\ messages' = messages /\ out' = << >>
            /\ \E i \in tasks' : i.id = j.id /\ i.pc = "esiCreate"
                                 /\ i.esiText = j.esiText /\ i.room = j.room
       /\ j.pc = "esiCreate" =>
            /\ messages' = Append(messages,
                 [id |-> Len(messages) + 1, room |-> j.room, senderType |-> "System",
                  sender |-> NoUser, text |-> j.esiText])
            /\ Len(out') = 1 /\ out'[1].name = "message"
            /\ out'[1].mid = Len(messages') /\ out'[1].senderType = "System"
            /\ out'[1].text = j.esiText /\ out'[1].room = j.room
            /\ out'[1].rcpt = {c \in Conns : connLive'[c] = "live"
                                             /\ RoomCh(j.room) \in subs'[c]}]_vars

\* a banner exists already: the notice of type inline is emitted again, and
\* the store holds that banner once
C14_Witness ==
  \E i \in 1..Len(out) :
    /\ out[i].name = "system" /\ out[i].type = "inline"
    /\ Cardinality({n \in 1..Len(messages) : messages[n].text = out[i].text}) = 1

\* the stored System messages of room r with this text
Banners(msgs, r, text) ==
  {n \in 1..Len(msgs) : msgs[n].room = r /\ msgs[n].senderType = "System"
                        /\ msgs[n].text = text}

\* C15: the existence check and the create of ensureSystemInline are two
\* store calls: a join handler whose check found no banner creates one even
\* if another handler has stored the same banner in between, and the store
\* then holds two System messages with that room and text.
C15_CreateAfterStaleCheck ==
  [][\A j \in tasks :
       (/\ j.kind = "join" /\ j.pc = "esiCreate" /\ Stepped(j)
        /\ Banners(messages, j.room, j.esiText) # {}) =>
       /\ Len(messages') = Len(messages) + 1
       /\ Cardinality(Banners(messages', j.room, j.esiText)) >= 2]_vars

\* a client join and the first manager join have both stored the
\* manager-assigned banner, the room being in the guard set pmAnnounced
C15_Witness ==
  /\ Cardinality(Banners(messages, "r1", PM_ASSIGNED)) = 2
  /\ "r1" \in pmAnnounced

\* the stored greetings of room r
Greetings(msgs, r) ==
  {n \in 1..Len(msgs) : /\ msgs[n].room = r /\ msgs[n].senderType = "User"
                        /\ \E u \in Users : msgs[n].text = Greeting(u)}

\* the join handler j of a manager that found, at its start, a room that an
\* earlier manager join has announced and whose online banner is stored
LaterManagerJoin(j) ==
  /\ j.kind = "join" /\ IsPMRole(RoleOf(j.u))
  /\ j.ret # "pmAssigned" /\ j.pc # "esiCreate"
  /\ j.room \in pmAnnounced /\ HasBanner(messages, j.room, PM_ONLINE)

\* C16: a manager join to a room where a manager join has settled before
\* appends nothing to the message store, and the store never holds more than
\* one greeting for the room.
C16_IdempotentGreeting ==
  [][/\ \A j \in tasks : (LaterManagerJoin(j) /\ Stepped(j)) => messages' = messages
     /\ \A r \in RoomIds : Cardinality(Greetings(messages', r)) <= 1]_vars

\* the second manager join is at its first store check, alone, after the
\* first has settled with its greeting stored
C16_Witness ==
  /\ nEvents = 2 /\ Cardinality(Greetings(messages, "r1")) = 1
  /\ \E j \in tasks : tasks = {j} /\ LaterManagerJoin(j) /\ j.pc = "esiExists"

\* the one "message" event of a step, for the message stored last, sent to
\* the sockets joined to room r
EmitsStored(r) ==
  /\ Len(out') = 1 /\ out'[1].name = "message" /\ out'[1].room = r
  /\ out'[1].mid = Len(messages') /\ out'[1].text = messages'[Len(messages')].text
  /\ out'[1].rcpt = {c \in Conns : connLive'[c] = "live" /\ RoomCh(r) \in subs'[c]}

\* the first event has settled and it was a manager's join
FirstManagerJoinSettled ==
  nEvents = 1 /\ tasks = {} /\ pmAnnounced # {}

\* C17: the first join of a manager to a room without messages, alone and
\* without failure, stores one System message with the manager-assigned text
\* and one greeting of type User sent by that manager; the step that stores
\* either one emits it to the room as a message event.
C17_FirstManagerJoin ==
  [][/\ \A j \in tasks : (nEvents = 1 /\ j.kind = "join" /\ Stepped(j)) =>
          /\ (j.pc = "esiCreate" /\ j.esiText = PM_ASSIGNED) =>
               /\ Cardinality(Banners(messages', j.room, PM_ASSIGNED)) = 1
               /\ EmitsStored(j.room) /\ out'[1].senderType = "System"
          /\ j.pc = "greet" =>
               /\ messages' = Append(messages,
                    [id |-> Len(messages) + 1, room |-> j.room, senderType |-> "User",
                     sender |-> j.u, text |-> Greeting(j.u)])
               /\ IsPMRole(RoleOf(j.u))
               /\ EmitsStored(j.room) /\ out'[1].senderType = "User"
               /\ out'[1].sender = j.u /\ j.c \in out'[1].rcpt
     /\ FirstManagerJoinSettled' =>
          \A r \in pmAnnounced' :
             /\ Cardinality(Banners(messages', r, PM_ASSIGNED)) = 1
             /\ Cardinality(Greetings(messages', r)) = 1
             /\ \A n \in Greetings(messages', r) : IsPMRole(RoleOf(messages'[n].sender))]_vars

\* the first manager join has settled: online banner, assigned banner, greeting
C17_Witness ==
  /\ FirstManagerJoinSettled /\ Len(messages) = 3
  /\ Cardinality(Greetings(messages, "r1")) = 1

\* the handler j has returned in this step
Returned(j) == ~\E i \in tasks' : i.id = j.id

\* C18: a Client's join to a room whose request has no manager assigned
\* returns without storing anything. With a manager assigned it goes on to
\* ensure the manager-assigned banner: when it returns the store holds that
\* banner, and the join stores a message only in the create that follows its
\* own check.
C18_ClientJoinBanner ==
  [][\A j \in tasks :
       (j.kind = "join" /\ IsClientRole(RoleOf(j.u)) /\ Stepped(j)) =>
       /\ (j.pc = "findPR" /\ ~prAssigned[j.room]) =>
            messages' = messages /\ Returned(j)
       /\ (j.pc = "findPR" /\ prAssigned[j.room]) =>
            /\ messages' = messages
            /\ \E i \in tasks' : /\ i.id = j.id /\ i.pc = "esiExists"
                                 /\ i.esiText = PM_ASSIGNED /\ i.room = j.room
       /\ (j.ret = "client" /\ Returned(j)) =>
            HasBanner(messages', j.room, PM_ASSIGNED)
       /\ messages' # messages =>
            /\ j.pc = "esiCreate" /\ j.esiText = PM_ASSIGNED /\ prAssigned[j.room]
            /\ Len(messages') = Len(messages) + 1]_vars

\* a client's join has settled in a room with a manager assigned: it has
\* stored the banner, no manager having joined
C18_Witness ==
  /\ prAssigned["r1"] /\ nEvents = 1 /\ tasks = {} /\ pmAnnounced = {}
  /\ Len(messages) = 1 /\ HasBanner(messages, "r1", PM_ASSIGNED)

\* the step in which ChatRoom.findById answers the handler j that the room
\* store holds no room with the id of its payload
NoRoom(j) == j.pc = "findRoom" /\ j.room \notin RoomIds /\ Stepped(j)

\* C19: for a room id that the room store does not hold, the join and the
\* message handler return with one error event, sent to their own socket
\* only, and nothing else; the typing handler returns and emits nothing.
C19_NoRoomOutcome ==
  [][\A j \in tasks : NoRoom(j) =>
       /\ Returned(j)
       /\ j.kind \in {"join", "message"} =>
            /\ Len(out') = 1 /\ out'[1].name = "error"
            /\ out'[1].rcpt \subseteq {j.c}
            /\ connLive'[j.c] = "live" => out'[1].rcpt = {j.c}
       /\ j.kind = "typing" => out' = << >>]_vars

\* an error event reaches its socket alone while another socket is connected
C19_Witness ==
  \E i \in 1..Len(out) :
    /\ out[i].name = "error" /\ out[i].rcpt = {out[i].c}
    /\ \E d \in Conns \ {out[i].c} : connLive[d] = "live"

\* C20: an event for a room id that the room store does not hold changes, at
\* its arrival and in its handler, neither the message store, the room store,
\* the identity store, the guard sets nor any socket's channels.
C20_NoRoomFrame ==
  [][(\/ \E j \in tasks : NoRoom(j)
      \/ \E j \in tasks' \ tasks : j.pc = "findRoom" /\ j.room \notin RoomIds) =>
       UNCHANGED <<messages, roomDocs, users, writes, pmAnnounced,
                   engineerFirstJoin, subs, presence>>]_vars

\* a join for an absent room has returned with its error; the socket holds
\* the channels it had and the store the message it had
C20_Witness ==
  /\ Len(messages) = 1
  /\ \E i \in 1..Len(out) :
       /\ out[i].name = "error" /\ out[i].kind = "join"
       /\ RoomCh("r0") \notin subs[out[i].c]

\* the step in which a store call of the handler j fails
Failed(j) == j \notin tasks' /\ fails' = fails + 1

\* C21: when Message.create of a message handler fails, the store is
\* unchanged, the handler returns, and the step emits one error event, to
\* the handler's socket, and no message event.
C21_CreateFailureVisible ==
  [][\A j \in tasks : (j.kind = "message" /\ j.pc = "create" /\ Failed(j)) =>
       /\ messages' = messages /\ Returned(j)
       /\ Len(out') = 1 /\ out'[1].name = "error"
       /\ out'[1].rcpt \subseteq {j.c}
       /\ connLive'[j.c] = "live" => out'[1].rcpt = {j.c}]_vars

\* the error of a failed Message.create has reached its socket
C21_Witness ==
  \E i \in 1..Len(out) :
    /\ out[i].name = "error" /\ out[i].kind = "message" /\ out[i].text = "create"
    /\ out[i].rcpt = {out[i].c} /\ fails = 1

\* a presence write is rejected by the identity store in this step
WriteRejected == fails' = fails + 1 /\ writes' # writes

\* C22: a rejected presence write, and a failed room lookup or save of a
\* typing handler, emit nothing: no error event and no typing event. The
\* step closes no connection, and the typing handler returns.
C22_BestEffortSwallowed ==
  [][/\ WriteRejected => out' = << >> /\ connLive' = connLive /\ tasks' = tasks
     /\ \A j \in tasks : (j.kind = "typing" /\ Failed(j)) =>
          /\ out' = << >> /\ connLive' = connLive /\ Returned(j)
          /\ roomDocs' = roomDocs]_vars

\* the first typing event has failed at the room store (no socket carries
\* an id, so no presence write exists); the second is handled and broadcast
C22_Witness ==
  /\ fails = 1 /\ \A c \in Conns : connUid[c] = NoUser
  /\ \E i \in 1..Len(out) : out[i].name = "typing" /\ out[i].task = 2

\* C23: every failure of a join, leave, typing or message handler is caught
\* inside the handler: no rejection escapes one, and none ends the process
\* and with it the connections.
C23_NothingEscapes == escaped = 0 /\ ~down

\* a leave event of socket c for room r arrives in this step
LeaveOf(c, r) ==
  /\ nEvents' = nEvents + 1
  /\ \/ \E j \in tasks' \ tasks : j.kind = "leave" /\ j.c = c /\ j.room = r
     \/ \E i \in 1..Len(out') : /\ out'[i].name = "system" /\ out'[i].type = "leave"
                                /\ out'[i].c = c /\ out'[i].room = r

\* C24: a leave event takes the room out of the channels of its socket and
\* changes neither another socket's channels, the room store, the message
\* store, the presence Map nor the guard sets; and no step of any handler
\* changes the members of a room.
C24_LeaveTransportOnly ==
  [][/\ \A c \in Conns, r \in RoomIds : LeaveOf(c, r) =>
          /\ subs' = [subs EXCEPT ![c] = @ \ {RoomCh(r)}]
          /\ UNCHANGED <<roomDocs, messages, presence, pmAnnounced, engineerFirstJoin>>
     /\ \A r \in RoomIds : roomDocs'[r].members = roomDocs[r].members]_vars

\* a client that had joined the room has left it: the notice is emitted, the
\* socket is out of the room and the client still is a member
C24_Witness ==
  \E i \in 1..Len(out) :
    /\ out[i].name = "system" /\ out[i].type = "leave" /\ nEvents = 2
    /\ connUid[out[i].c] = "u1" /\ "u1" \in roomDocs["r1"].members
    /\ RoomCh("r1") \notin subs[out[i].c] /\ subs[out[i].c] # {}

\* C25: every step keeps the stored messages as they are, in their places,
\* and at most appends to them.
C25_AppendOnly ==
  [][/\ Len(messages') >= Len(messages)
     /\ \A n \in 1..Len(messages) : messages'[n] = messages[n]]_vars

\* banners, a greeting and a posted message have been appended in turn
C25_Witness ==
  /\ Len(messages) = 4
  /\ messages[1].senderType = "System" /\ messages[4].text = "hello"

\* the join handler j is inside the block guarded by pmAnnounced
InBlock(j) == j.kind = "join" /\ j.ret = "pmAssigned"

\* C26: a join handler enters the guarded block only for a room that is not
\* in pmAnnounced, and the room is in it from that step on; so at most one
\* handler per room is ever inside the block, only such a handler stores a
\* greeting, and the store holds at most one greeting per room.
C26_GuardedBlockOnce ==
  [][/\ pmAnnounced \subseteq pmAnnounced'
     /\ \A i \in tasks' :
          (InBlock(i) /\ ~\E j \in tasks : j.id = i.id /\ InBlock(j)) =>
          /\ i.room \notin pmAnnounced /\ i.room \in pmAnnounced'
          /\ ~\E j \in tasks : InBlock(j) /\ j.room = i.room
     /\ \A r \in RoomIds :
          /\ Cardinality({i \in tasks' : InBlock(i) /\ i.room = r}) <= 1
          /\ Cardinality(Greetings(messages', r)) <= 1
          /\ Greetings(messages', r) # Greetings(messages, r) =>
               \E j \in tasks : InBlock(j) /\ j.pc = "greet" /\ j.room = r /\ Stepped(j)]_vars

\* two manager joins to the room are in progress: one is inside the guarded
\* block, the other has not reached the guard yet
C26_Witness ==
  \E i, j \in tasks :
    /\ i.room = j.room /\ InBlock(i)
    /\ j.kind = "join" /\ j.ret = "pmOnline" /\ IsPMRole(RoleOf(j.u))

\* the handler j is about to create what its check did not find, though the
\* store holds it by now: another join has run alongside
Stale(j) ==
  \/ j.pc = "esiCreate" /\ HasBanner(messages, j.room, j.esiText)
  \/ j.pc = "greet" /\ Greetings(messages, j.room) # {}

\* C27: whatever the guard sets hold, a manager's join that runs alone in a
\* room whose store holds the manager-assigned banner and the greeting
\* appends nothing to the message store: a check of it that finds the banner
\* or a User message is not followed by the create.
C27_StoreChecksDedup ==
  [][\A j \in tasks :
       (/\ j.kind = "join" /\ tasks = {j} /\ Stepped(j) /\ ~Stale(j)
        /\ HasBanner(messages, j.room, PM_ASSIGNED)
        /\ Greetings(messages, j.room) # {}) =>
       /\ messages' = messages
       /\ (j.pc = "esiExists" /\ HasBanner(messages, j.room, j.esiText)) =>
            ~\E i \in tasks' : i.id = j.id /\ i.pc = "esiCreate"
       /\ j.pc = "hasUserMsg" => ~\E i \in tasks' : i.id = j.id /\ i.pc = "greet"]_vars

\* after a restart the guard let the manager's join into the guarded block
\* again: it is at the check for a User message, the greeting being stored
C27_Witness ==
  \E j \in tasks :
    /\ tasks = {j} /\ InBlock(j) /\ j.pc = "hasUserMsg"
    /\ Greetings(messages, j.room) # {} /\ HasBanner(messages, j.room, PM_ASSIGNED)

\* the user document that the step of the join handler j resolves, if any
Resolved(j) ==
  IF j.pc = "findRoom" THEN myUserDoc[j.c]
  ELSE IF j.pc = "findUser" /\ j.uid \in Users THEN j.uid
  ELSE NoUser

\* the events of the latest step that carry the text
Carrying(o, text) == {n \in 1..Len(o) : o[n].text = text}

\* the handler j is at the store call pc of ensureSystemInline(room, text)
Ensuring(j, pc, text) ==
  j.kind = "join" /\ j.pc = pc /\ j.esiText = text /\ Stepped(j)

\* C28: a join that resolves a manager goes on to ensure the actively-online
\* banner, whether the room is in pmAnnounced or not; the existence check
\* emits one system event of type inline with that text if the banner is
\* stored, and else the create emits one message event with it; no other step
\* emits an event with that text.
C28_PresencePing ==
  [][/\ \A j \in tasks :
          (/\ j.kind = "join" /\ Stepped(j) /\ j.room \in RoomIds
           /\ IsPMRole(RoleOf(Resolved(j)))) =>
          \E i \in tasks' : /\ i.id = j.id /\ i.pc = "esiExists"
                            /\ i.esiText = PM_ONLINE /\ i.ret = "pmOnline"
     /\ \A j \in tasks : Ensuring(j, "esiExists", PM_ONLINE) =>
          IF HasBanner(messages, j.room, PM_ONLINE)
          THEN /\ Len(out') = 1 /\ out'[1].name = "system" /\ out'[1].type = "inline"
               /\ out'[1].text = PM_ONLINE /\ out'[1].room = j.room
               /\ out'[1].rcpt = {c \in Conns : connLive'[c] = "live"
                                                /\ RoomCh(j.room) \in subs'[c]}
          ELSE /\ out' = << >>
               /\ \E i \in tasks' : i.id = j.id /\ i.pc = "esiCreate"
                                    /\ i.esiText = PM_ONLINE
     /\ \A j \in tasks : Ensuring(j, "esiCreate", PM_ONLINE) =>
          /\ Len(out') = 1 /\ out'[1].name = "message" /\ out'[1].text = PM_ONLINE
          /\ out'[1].rcpt = {c \in Conns : connLive'[c] = "live"
                                           /\ RoomCh(j.room) \in subs'[c]}
     /\ Carrying(out', PM_ONLINE) # {} =>
          \E j \in tasks : \/ Ensuring(j, "esiExists", PM_ONLINE)
                           \/ Ensuring(j, "esiCreate", PM_ONLINE)]_vars

\* the ping of a manager's join to a room that is in pmAnnounced: the
\* notice of type inline reaches the joining socket
C28_Witness ==
  \E n \in Carrying(out, PM_ONLINE) :
    /\ out[n].name = "system" /\ out[n].room \in pmAnnounced
    /\ out[n].c \in out[n].rcpt /\ Len(messages) = 3

\* the engineer branch of an engine that keeps no engineerFirstJoin set
JoinEngineerNoSet(k, t) ==
  IF IsEngineerRole(RoleOf(Task(k, t).u)) THEN EsiCall(k, t, ENGINEER_IN, "engineer")
  ELSE Finish(k, t)

\* the values the set engineerFirstJoin can hold, and a memory without it
Tags == {<<r, u>> : r \in RoomIds, u \in Users \cup {NoUser}}
WithoutTags(k) == [k EXCEPT !.engineerFirstJoin = {}]

\* C29: a join that resolves an engineer goes on to ensure the engineer
\* banner whatever engineerFirstJoin holds, and that call emits one event to
\* the room (the notice of type inline if the banner is stored, else the
\* message event of the create); but for the set itself, the engineer branch
\* yields, for every content of the set, what an engine without the set yields.
C29_EngineerGuardIgnored ==
  [][/\ \A j \in tasks :
          (/\ j.kind = "join" /\ Stepped(j) /\ j.room \in RoomIds
           /\ IsEngineerRole(RoleOf(Resolved(j)))) =>
          \E i \in tasks' : /\ i.id = j.id /\ i.pc = "esiExists"
                            /\ i.esiText = ENGINEER_IN
     /\ \A j \in tasks : Ensuring(j, "esiExists", ENGINEER_IN) =>
          IF HasBanner(messages, j.room, ENGINEER_IN)
          THEN /\ Len(out') = 1 /\ out'[1].name = "system" /\ out'[1].type = "inline"
               /\ out'[1].text = ENGINEER_IN /\ messages' = messages
          ELSE \E i \in tasks' : i.id = j.id /\ i.pc = "esiCreate"
     /\ \A j \in tasks : Ensuring(j, "esiCreate", ENGINEER_IN) =>
          Len(out') = 1 /\ out'[1].name = "message" /\ out'[1].text = ENGINEER_IN
     /\ \A j \in tasks, S \in SUBSET Tags :
          j.kind = "join" =>
            WithoutTags(JoinEngineer([Chat EXCEPT !.engineerFirstJoin = S], j.id))
              = WithoutTags(JoinEngineerNoSet(Chat, j.id))]_vars

\* the second join of the engineer, its tag being in engineerFirstJoin,
\* has emitted the notice for the stored banner
C29_Witness ==
  \E n \in Carrying(out, ENGINEER_IN) :
    /\ out[n].name = "system" /\ out[n].task = 2
    /\ <<out[n].room, "u3">> \in engineerFirstJoin
    /\ Cardinality(Banners(messages, out[n].room, ENGINEER_IN)) = 1

\* C30: every stored greeting of a room comes after a stored System message
\* of that room with the manager-assigned text and after one with the
\* actively-online text.
C30_BannerBeforeGreeting ==
  \A r \in RoomIds : \A n \in Greetings(messages, r) :
    /\ \E a \in Banners(messages, r, PM_ASSIGNED) : a < n
    /\ \E b \in Banners(messages, r, PM_ONLINE) : b < n

\* a greeting is stored behind both banners, a store call of another
\* handler having failed
C30_Witness ==
  /\ fails = 1 /\ nEvents = 2
  /\ \E n \in Greetings(messages, "r1") : n = 3 /\ messages[n].sender = "u2"

\* the stored User messages of room r
UserMessages(msgs, r) ==
  {n \in 1..Len(msgs) : msgs[n].room = r /\ msgs[n].senderType = "User"}

\* C31: a stored greeting is the earliest User message of its room: the room
\* held no User message when the greeting was appended, also when a message
\* event for the room is handled alongside the manager's join.
C31_GreetingFirst ==
  \A r \in RoomIds : \A n \in Greetings(messages, r) :
    \A i \in UserMessages(messages, r) : n <= i

\* the typing handlers i and j, of different users and the same room, have
\* both read the room and neither has saved it
BothRead(i, j) ==
  /\ i.kind = "typing" /\ j.kind = "typing" /\ i.id # j.id
  /\ i.room = j.room /\ i.uid # j.uid
  /\ i.pc = "save" /\ j.pc = "save"

\* the key of the typing update j is in the map m as its isTyping says
Reflects(m, j) ==
  IF j.isTyping THEN j.uid \in DOMAIN m /\ m[j.uid] = (IF j.role = NoRole THEN "User" ELSE j.role)
  ELSE j.uid \notin DOMAIN m

JoinNotice(e, j) ==
  /\ e.name = "system" /\ e.type = "join" /\ e.room = j.room /\ e.uid = j.uid
  /\ e.task = j.id
  /\ e.rcpt = {c \in Conns : connLive'[c] = "live" /\ RoomCh(j.room) \in subs'[c]}
  /\ j.c \in e.rcpt

\* the banner and greeting events of join handlers among the events o
BannerEvents(o) ==
  {n \in 1..Len(o) : /\ o[n].kind = "join"
                     /\ (o[n].name = "message" \/ (o[n].name = "system" /\ o[n].type = "inline"))}

\* C33: when the room lookup of a join finds the room, the socket is joined
\* to the room, and to user:{userId} if the payload carries one, and a joined
\* event with the room id goes to that socket alone; the join notice follows,
\* in that step if the user document is cached and else when the user lookup
\* answers, once, to every socket joined to the room, the joiner included; a
\* banner or greeting of a join is emitted only by later steps of the handler.
C33_SuccessfulJoin ==
  [][/\ \A j \in tasks : (j.kind = "join" /\ Stepped(j) /\ j.room \in RoomIds) =>
          /\ j.pc = "findRoom" =>
               /\ subs' = [subs EXCEPT ![j.c] =
                            @ \cup {RoomCh(j.room)}
                              \cup (IF j.uid # NoUser THEN {UserCh(j.uid)} ELSE {})]
               /\ Len(out') >= 1 /\ out'[1].name = "joined" /\ out'[1].room = j.room
               /\ out'[1].task = j.id /\ out'[1].rcpt = {j.c}
               /\ IF myUserDoc[j.c] # NoUser
                  THEN Len(out') = 2 /\ JoinNotice(out'[2], j)
                  ELSE Len(out') = 1 /\ \E i \in tasks' : i.id = j.id /\ i.pc = "findUser"
          /\ j.pc = "findUser" =>
               subs' = subs /\ Len(out') = 1 /\ JoinNotice(out'[1], j)
     /\ \A n \in 1..Len(out') :
          (out'[n].name = "joined" \/ out'[n].type = "join") =>
            \E j \in tasks : /\ j.id = out'[n].task /\ j \notin tasks'
                             /\ j.pc \in (IF out'[n].name = "joined" THEN {"findRoom"}
                                          ELSE {"findRoom", "findUser"})
     /\ \A n \in BannerEvents(out') :
          \E j \in tasks : /\ j.id = out'[n].task
                           /\ j.pc \in {"esiExists", "esiCreate", "greet"}
                           /\ RoomCh(j.room) \in subs[j.c]]_vars

\* a socket without handshake id has joined with the manager's id in its
\* payload: it is on the manager's channel, and its join notice has reached
\* it and the socket that joined before
C33_Witness ==
  \E n \in 1..Len(out) :
    /\ out[n].type = "join" /\ Cardinality(out[n].rcpt) = 2 /\ out[n].c \in out[n].rcpt
    /\ connUid[out[n].c] = NoUser /\ UserCh("u2") \in subs[out[n].c]

\* C34: the leave notice is broadcast after the socket has left the room: it
\* reaches the sockets joined to the room and never the leaving socket, which
\* gets no broadcast of the room until it joins again.
C34_LeaveNotice ==
  \A n \in 1..Len(out) :
    (out[n].name = "system" /\ out[n].type = "leave") =>
      /\ out[n].rcpt = InRoomNow(out[n].room)
      /\ out[n].c \notin out[n].rcpt

\* C35: a room that is in pmAnnounced while no join handler for it is in
\* progress has its manager-assigned banner in the message store, also after
\* a store call inside the guarded block has failed.
C35_GuardImpliesBanner ==
  \A r \in pmAnnounced :
    (~\E j \in tasks : j.kind = "join" /\ j.room = r) => HasBanner(messages, r, PM_ASSIGNED)

\* C36: a join event gets its socket either the joined event or an error
\* event, never both: the error event of a join handler comes from the room
\* lookup, the one store call before the socket is joined and acknowledged,
\* and that step leaves the socket's channels as they are.
C36_JoinAllOrNothing ==
  [][\A j \in tasks :
       (j.kind = "join" /\ \E n \in 1..Len(out') : out'[n].name = "error" /\ out'[n].task = j.id) =>
       /\ j.pc = "findRoom"
       /\ subs' = subs]_vars

\* C37: once every connection of a user is closed and no handler is in
\* progress, no room's stored typing map holds the user's id.
C37_TypingEndsWithConnections ==
  \A u \in Users :
    (/\ ClosedOf(u) # {} /\ LiveOf(u) = {} /\ tasks = {}
     /\ \A c \in Conns : connPc[c] # "lookup") =>
    \A r \in RoomIds : u \notin DOMAIN roomDocs[r].typing

\* C38: the message that a message event persists has as its sender the user
\* id of the handshake of its socket (none for a socket without one, which so
\* cannot persist a message attributed to a user), and the role and name of
\* its echo are taken from the document of that stored sender.
C38_SenderAuthentic ==
  \A i \in Echoes :
    /\ messages[out[i].mid].sender = connUid[out[i].c]
    /\ out[i].doc = messages[out[i].mid].sender

\* the stored accounts with the role SuperAdmin
SuperAdmins == {a \in accounts : a.role = "SuperAdmin"}

\* C39: the identity store never holds more than one account with the role
\* SuperAdmin, whatever calls of registerSuperAdmin and addUserBySuperAdmin
\* are made and however they interleave.
C39_SingleSuperAdmin == Cardinality(SuperAdmins) <= 1

\* the calls of refreshAccessToken(token) that have returned a new pair
Refreshed(token) ==
  {k \in calls : k.op = "refreshAccessToken" /\ k.token = token /\ k.result = OK}

\* C40: a refresh token yields a new pair at most once: of the calls of
\* refreshAccessToken with one token, one after the other or interleaved, at
\* most one returns a pair, and the others throw.
C40_SingleUse == \A token \in TokenInputs : Cardinality(Refreshed(token)) <= 1

====
